---- MODULE Spec2Model ----
(***************************************************************************)
(* Pinit recommendations: the scoring and ranking engine.                  *)
(*                                                                         *)
(*   SpecProximal    src/recommendation/proximal_recommendation.py         *)
(*   SpecPipeline    src/pinit/pipeline.py: src/recommendation/            *)
(*                   user_profiles.py, then src/pinit/recommendation.py    *)
(*   SpecHiddenGems  src/pinit/hidden_gems.py on a table of                *)
(*                   src/pinit/tagging.py load_locations                   *)
(*   SpecTwoRuns     src/pinit/pipeline.py run twice on the same inputs    *)
(*   SpecVenueTable  src/pinit/tagging.py load_locations with a base file  *)
(*   SpecTagging     src/pinit/tagging.py build_location_tags and          *)
(*                   src/pinit/tag_taxonomy.py                             *)
(*   SpecAdaptiveWeights  src/pinit/recommendation.py _adaptive_weights    *)
(*   SpecAffinities  src/recommendation/user_profiles.py on venues with    *)
(*                   many tags                                             *)
(*   SpecProximalFair  SpecProximal with the call's steps taken fairly     *)
(*   SpecServing     src/api/proximal_api.py: the cache and the handlers   *)
(*                                                                         *)
(* Numbers are fixed point.  Scores that the code keeps in [0,1] are held  *)
(* in units of 1/Scale; tag and affinity scores are held as the code holds *)
(* them (0..100); weights are held in percent.  A nullable column holds    *)
(* <<>> for NaN / None and <<v>> for the value v.                          *)
(***************************************************************************)
EXTENDS Integers, Sequences, FiniteSets, TLC

VARIABLES
    pc,             \* position of the running operation
    locations,      \* the venue table (a sequence of rows)
    user_tags,      \* the user x tag affinity table
    location_tags,  \* the venue x tag evidence table
    user_id,        \* proximal: the requested user
    center,         \* proximal: the centre of the search, [lat, lon]
    config,         \* proximal: the ProximalConfig of the running invocation
    nearby,         \* proximal: the filtered in-radius rows
    filter_radius,  \* proximal: the radius of the filter_by_radius call that produced nearby
    nearby_copy,    \* proximal: the scored, sorted and ranked rows
    result,         \* proximal: nearby_copy.head(max_results)
    depth,          \* proximal: number of recursive calls made so far
    call_radii,     \* proximal: radius_km of every invocation so far, outermost first
    caller_counts,  \* proximal: len(nearby) of every invocation that made the recursive call
    user_actions,   \* pipeline: the action log
    user_history,   \* pipeline: the per-user action counts
    pipeline_config,\* pipeline: PipelineConfig (recommendation_weights, top_k_per_user)
    set_order,      \* pipeline: the order in which a set of venue ids is iterated
    taste_scores,   \* blender: the (user, venue) taste rows
    candidate_map,  \* blender: the users in dict order, each with its candidate set
    seen_locations, \* blender: per user, the venues of the user's resolvable actions
    pending,        \* blender: the users the loop has not reached yet
    min_reviews,    \* hidden gems: the review-count threshold passed by the caller
    sklearn_available, \* hidden gems: _SKLEARN_AVAILABLE, set when the module is imported
    model_df,       \* hidden gems: the rows with a rating
    fit_result,     \* hidden gems: what _fit_hype_model returned, <<>> for None
    base_df,        \* venue table: the place_id and grid_id columns of the base file, <<>> without them
    reviews,        \* tagging: the rows of the reviews file
    review_config,  \* tagging: the ReviewTagConfig
    records,        \* tagging: the tag records before they are joined to the catalog
    tags_df,        \* tagging: the tag catalog of tag_dataframe
    now,            \* pipeline: the day the clock shows (pd.Timestamp.utcnow)
    action_log,     \* pipeline: the action rows of the user-actions file
    rng_stream,     \* pipeline: the draws of np.random.default_rng(42), in order
    first_run,      \* two runs: the tables of the first run, <<>> while it is running
    DATA_CACHE,     \* serving: the module's cache of tables and its loaded flag
    staged,         \* serving: the local tables of a running load_data, <<>> otherwise
    n_startups,     \* serving: the startup events of the process so far
    n_builds,       \* serving: how often load_data has built the tables so far
    output          \* the table returned to the caller, or the response to a request

vars == <<pc, locations, user_tags, location_tags, user_id, center, config,
          nearby, filter_radius, nearby_copy, result, depth, call_radii,
          caller_counts, user_actions, user_history, pipeline_config, set_order,
          taste_scores, candidate_map, seen_locations, pending, min_reviews,
          sklearn_available, model_df, fit_result, base_df, reviews, review_config,
          records, tags_df, now, action_log, rng_stream,
          first_run, DATA_CACHE, staged, n_startups, n_builds, output>>

pipeVars == <<user_actions, user_history, pipeline_config, set_order, taste_scores,
              candidate_map, seen_locations, pending>>

gemVars == <<min_reviews, sklearn_available, model_df, fit_result, base_df>>

tagVars == <<reviews, review_config, records, tags_df>>

runVars == <<now, action_log, rng_stream, first_run>>

proxVars == <<user_id, center, config, nearby, filter_radius, nearby_copy,
              result, depth, call_radii, caller_counts>>

apiVars == <<DATA_CACHE, staged, n_startups, n_builds>>

-----------------------------------------------------------------------------
(* Fixed point and nullable values                                         *)

Scale == 100 * 100

NaN == <<>>
IsNa(x) == x = <<>>
Val(x) == x[1]
Fill(x, d) == IF IsNa(x) THEN d ELSE Val(x)

\* proximal_api.py lines 115-122: the cache of a process that has loaded nothing
EmptyCache ==
    [locations |-> NaN, tags |-> NaN, location_tags |-> NaN, user_tags |-> NaN,
     user_history |-> NaN, loaded |-> FALSE]

\* no serving process: the cache is as the module defines it
ApiIdle ==
    /\ DATA_CACHE = EmptyCache
    /\ staged = <<>>
    /\ n_startups = 0
    /\ n_builds = 0

Min2(a, b) == IF a <= b THEN a ELSE b
Max2(a, b) == IF a >= b THEN a ELSE b
Abs(a) == IF a < 0 THEN -a ELSE a

RECURSIVE SeqSum(_)
SeqSum(s) == IF s = <<>> THEN 0 ELSE Head(s) + SeqSum(Tail(s))

SeqToSet(s) == {s[i] : i \in 1..Len(s)}

\* first n rows of a table (DataFrame.head(n), list[:n]) for n >= 0
HeadN(s, n) == SubSeq(s, 1, Min2(n, Len(s)))

-----------------------------------------------------------------------------
(* Proximal recommender: distances and the radius filter                   *)

\* Venues and centre lie on one meridian, one unit of latitude per km, so the
\* great-circle distance is the difference of the latitudes.
haversine_distance(lat1, lon1, lat2, lon2) ==
    IF lon1 = lon2 THEN Abs(lat2 - lat1) ELSE Abs(lat2 - lat1) + Abs(lon2 - lon1)

\* distance of one row: infinite when latitude or longitude is missing
Inf == [inf |-> TRUE, km |-> 0]
MutRowDistanceMissingIsZero(c_lat, c_lon, row) ==
    IF IsNa(row.lat) \/ IsNa(row.lon)
    THEN [inf |-> FALSE, km |-> 0]
    ELSE [inf |-> FALSE, km |-> haversine_distance(c_lat, c_lon, Val(row.lat), Val(row.lon))]
RowDistance(c_lat, c_lon, row) ==
    IF IsNa(row.lat) \/ IsNa(row.lon)
    THEN Inf
    ELSE [inf |-> FALSE, km |-> haversine_distance(c_lat, c_lon, Val(row.lat), Val(row.lon))]

calculate_distances(c_lat, c_lon, locs) ==
    [i \in 1..Len(locs) |-> RowDistance(c_lat, c_lon, locs[i])]

\* distance_km <= radius_km; an infinite distance is within no radius
WithinRadius(d, radius_km) == ~d.inf /\ d.km <= radius_km

\* insertion of a row into a table sorted by ascending distance_km
RECURSIVE InsertByDistance(_, _)
InsertByDistance(row, s) ==
    IF s = <<>> THEN <<row>>
    ELSE IF row.distance_km.km <= Head(s).distance_km.km THEN <<row>> \o s
    ELSE <<Head(s)>> \o InsertByDistance(row, Tail(s))

RECURSIVE SortByDistance(_)
SortByDistance(s) ==
    IF s = <<>> THEN <<>>
    ELSE InsertByDistance(Head(s), SortByDistance(Tail(s)))

filter_by_radius(c_lat, c_lon, locs, radius_km) ==
    LET distances == calculate_distances(c_lat, c_lon, locs)
        withd == [i \in 1..Len(locs) |->
                    [location_id |-> locs[i].location_id,
                     lat |-> locs[i].lat,
                     lon |-> locs[i].lon,
                     rating |-> locs[i].rating,
                     user_ratings_total |-> locs[i].user_ratings_total,
                     distance_km |-> distances[i]]]
        kept == SelectSeq(withd, LAMBDA r : WithinRadius(r.distance_km, radius_km))
    IN  SortByDistance(kept)

-----------------------------------------------------------------------------
(* Proximal recommender: component scores                                  *)

\* sum over the user's profile rows and the venue's evidence rows that share a
\* tag of (score_x / 100) * (score_y / 100), in units of 1/Scale
RECURSIVE MergedComponentSum(_, _, _)
MergedComponentSum(profile, tags, loc_id) ==
    IF profile = <<>> THEN 0
    ELSE SeqSum([j \in 1..Len(tags) |->
                    IF tags[j].location_id = loc_id /\ tags[j].tag_id = Head(profile).tag_id
                    THEN Head(profile).score * tags[j].score
                    ELSE 0])
         + MergedComponentSum(Tail(profile), tags, loc_id)

\* taste score of one venue: 0 without profile or shared tag, capped above at 1
TasteOf(uid, loc_id, utags, ltags) ==
    LET user_profile == SelectSeq(utags, LAMBDA r : r.user_id = uid)
    IN  Min2(MergedComponentSum(user_profile, ltags, loc_id), Scale)

compute_taste_score(uid, location_ids, utags, ltags) ==
    [i \in 1..Len(location_ids) |-> TasteOf(uid, location_ids[i], utags, ltags)]

\* e^(2/r) in units of 1/Scale, by its power series
RECURSIVE ExpSeries(_, _, _)
ExpSeries(term, k, r) ==
    IF term = 0 THEN 0 ELSE term + ExpSeries((term * 2) \div (r * k), k + 1, r)

\* q^d for q in units of 1/Scale
RECURSIVE PowScaled(_, _)
PowScaled(q, d) == IF d = 0 THEN Scale ELSE (q * PowScaled(q, d - 1)) \div Scale

\* np.exp(-2 * distance / max_distance), in units of 1/Scale
ProximityScore(distance, max_distance) ==
    PowScaled((Scale * Scale) \div ExpSeries(Scale, 1, max_distance), distance)

compute_proximity_score(distances, max_distance) ==
    [i \in 1..Len(distances) |-> ProximityScore(distances[i], max_distance)]

\* np.log1p(n) in thousandths
RECURSIVE Log2Floor(_)
Log2Floor(n) == IF n <= 1 THEN 0 ELSE 1 + Log2Floor(n \div 2)
Log1pMilli(n) ==
    CASE n = 0 -> 0
      [] n = 1 -> 693
      [] n = 2 -> 1099
      [] n = 3 -> 1386
      [] n = 4 -> 1609
      [] n = 5 -> 1792
      [] n = 40 -> 3714
      [] n = 100 -> 4615
      [] n = 5000 -> 8517
      [] n = 30000 -> 10309
      [] OTHER -> 693 * Log2Floor(n + 1)

\* 0.7 * rating / 5 (3.0 when missing) + 0.3 * min(1, log1p(reviews) / 10), capped at 1;
\* rating is held in tenths
QualityOf(row) ==
    LET rating_score == (Fill(row.rating, 30) * Scale) \div 50
        review_score == Min2((Log1pMilli(Fill(row.user_ratings_total, 0)) * Scale) \div 10000, Scale)
    IN  Min2((7 * rating_score + 3 * review_score) \div 10, Scale)

compute_quality_score(rows) == [i \in 1..Len(rows) |-> QualityOf(rows[i])]

\* the weighted sum of the three component scores (weights in percent)
FinalScore(cfg, taste, proximity, quality) ==
    cfg.taste_weight * taste + cfg.proximity_weight * proximity + cfg.quality_weight * quality

-----------------------------------------------------------------------------
(* Proximal recommender: build_proximal_recommendations                    *)

\* the in-radius rows with their component scores and final score, in nearby's order
ScoredRows(uid, near, utags, ltags, cfg) ==
    LET ids == [i \in 1..Len(near) |-> near[i].location_id]
        taste_col == compute_taste_score(uid, ids, utags, ltags)
        proximity_col ==
            compute_proximity_score([i \in 1..Len(near) |-> near[i].distance_km.km],
                                    cfg.radius_km)
        quality_col == compute_quality_score(near)
    IN  [i \in 1..Len(near) |->
            [location_id |-> near[i].location_id,
             distance_km |-> near[i].distance_km.km,
             taste_score |-> taste_col[i],
             proximity_score |-> proximity_col[i],
             quality_score |-> quality_col[i],
             final_score |-> FinalScore(cfg, taste_col[i], proximity_col[i],
                                        quality_col[i])]]

\* sort_values('final_score', ascending=False): rows[i] goes before rows[j]
MutScoreBeforeAscending(a, b) == a.final_score <= b.final_score
ScoreBefore(a, b) == a.final_score >= b.final_score

\* the orders sort_values may leave the rows in: it is not a stable sort, so rows
\* of equal final_score come out in any order
SortOrders(rows) ==
    {p \in [1..Len(rows) -> 1..Len(rows)] :
        /\ \A i, j \in 1..Len(rows) : i # j => p[i] # p[j]
        /\ \A i, j \in 1..Len(rows) : i < j => ScoreBefore(rows[p[i]], rows[p[j]])}

\* nearby_copy['rank'] = range(1, len(nearby_copy) + 1)
WithRank(rows, p) ==
    [i \in 1..Len(rows) |->
        [location_id |-> rows[p[i]].location_id,
         distance_km |-> rows[p[i]].distance_km,
         taste_score |-> rows[p[i]].taste_score,
         proximity_score |-> rows[p[i]].proximity_score,
         quality_score |-> rows[p[i]].quality_score,
         final_score |-> rows[p[i]].final_score,
         rank |-> i]]

\* the venue tables hold at most MaxVenues rows
MaxVenues == 3

\* more recursive calls than a table of MaxVenues venues can cause
MaxDepth == MaxVenues

\* the rows within 3 x radius_km
Expanded == filter_by_radius(center.lat, center.lon, locations, config.radius_km * 3)

\* lines 293 and 298: too few results, and the wider radius holds more venues
MutExpandGuardDoubleRadius ==
    /\ Len(result) < config.min_results
    /\ Len(nearby_copy) < config.min_results
    /\ Len(filter_by_radius(center.lat, center.lon, locations, config.radius_km * 2))
           > Len(nearby)
MutExpandGuardNoGrowthTest ==
    /\ Len(result) < config.min_results
    /\ Len(nearby_copy) < config.min_results
ExpandGuard ==
    /\ Len(result) < config.min_results
    /\ Len(nearby_copy) < config.min_results
    /\ Len(Expanded) > Len(nearby)

\* line 243: filter by the configured radius
ProxFilter ==
    /\ UNCHANGED apiVars
    /\ UNCHANGED <<pipeVars, gemVars, tagVars, runVars>>
    /\ pc = "filter"
    /\ nearby' = filter_by_radius(center.lat, center.lon, locations, config.radius_km)
    /\ filter_radius' = config.radius_km
    /\ pc' = IF nearby' = <<>> THEN "retry" ELSE "score"
    /\ UNCHANGED <<locations, user_tags, location_tags, user_id, center, config,
                   nearby_copy, result, depth, call_radii, caller_counts, output>>

MutProxRetryAtTriple ==
    /\ UNCHANGED apiVars
    /\ UNCHANGED <<pipeVars, gemVars, tagVars, runVars>>
    /\ pc = "retry"
    /\ nearby' = filter_by_radius(center.lat, center.lon, locations, config.radius_km * 3)
    /\ filter_radius' = config.radius_km * 3
    /\ pc' = IF nearby' = <<>> THEN "empty" ELSE "score"
    /\ UNCHANGED <<locations, user_tags, location_tags, user_id, center, config,
                   nearby_copy, result, depth, call_radii, caller_counts, output>>
\* lines 245-247: nothing in radius, filter again with twice the radius
ProxRetry ==
    /\ UNCHANGED apiVars
    /\ UNCHANGED <<pipeVars, gemVars, tagVars, runVars>>
    /\ pc = "retry"
    /\ nearby' = filter_by_radius(center.lat, center.lon, locations, config.radius_km * 2)
    /\ filter_radius' = config.radius_km * 2
    /\ pc' = IF nearby' = <<>> THEN "empty" ELSE "score"
    /\ UNCHANGED <<locations, user_tags, location_tags, user_id, center, config,
                   nearby_copy, result, depth, call_radii, caller_counts, output>>

\* lines 249-253: still nothing, return the empty table
ProxReturnEmpty ==
    /\ UNCHANGED apiVars
    /\ UNCHANGED <<pipeVars, gemVars, tagVars, runVars>>
    /\ pc = "empty"
    /\ output' = <<>>
    /\ pc' = "done"
    /\ UNCHANGED <<locations, user_tags, location_tags, proxVars>>

\* lines 255-290: score, sort, rank, truncate
ProxScore ==
    /\ UNCHANGED apiVars
    /\ UNCHANGED <<pipeVars, gemVars, tagVars, runVars>>
    /\ pc = "score"
    /\ LET rows == ScoredRows(user_id, nearby, user_tags, location_tags, config)
       IN  \E p \in SortOrders(rows) :
              /\ nearby_copy' = WithRank(rows, p)
              /\ result' = HeadN(nearby_copy', config.max_results)
    /\ pc' = "ensure"
    /\ UNCHANGED <<locations, user_tags, location_tags, user_id, center, config,
                   nearby, filter_radius, depth, call_radii, caller_counts, output>>

\* lines 292-311: the recursive call with three times the radius; it is a tail
\* call, so the invocation's state is replaced by the callee's.  The recursion
\* depth is capped at MaxDepth, which C29_DepthBelowCap shows is never reached
ProxExpand ==
    /\ UNCHANGED apiVars
    /\ UNCHANGED <<pipeVars, gemVars, tagVars, runVars>>
    /\ pc = "ensure"
    /\ ExpandGuard
    /\ depth < MaxDepth
    /\ config' = [config EXCEPT !.radius_km = config.radius_km * 3]
    /\ depth' = depth + 1
    /\ call_radii' = Append(call_radii, config.radius_km * 3)
    /\ caller_counts' = Append(caller_counts, Len(nearby))
    /\ pc' = "filter"
    /\ UNCHANGED <<locations, user_tags, location_tags, user_id, center,
                   nearby, filter_radius, nearby_copy, result, output>>

\* lines 313-324: return the truncated table
ProxReturn ==
    /\ UNCHANGED apiVars
    /\ UNCHANGED <<pipeVars, gemVars, tagVars, runVars>>
    /\ pc = "ensure"
    /\ ~ExpandGuard
    /\ output' = result
    /\ pc' = "done"
    /\ UNCHANGED <<locations, user_tags, location_tags, proxVars>>

-----------------------------------------------------------------------------
(* Proximal recommender: inputs                                            *)


\* where a venue can be: on the centre's meridian, or with a coordinate missing
GeoOptions ==
    <<[lat |-> <<1>>, lon |-> <<0>>],
      [lat |-> <<2>>, lon |-> <<0>>],
      [lat |-> <<3>>, lon |-> <<0>>],
      [lat |-> <<9>>, lon |-> <<0>>],
      [lat |-> NaN,   lon |-> <<0>>],
      [lat |-> <<1>>, lon |-> NaN]>>

\* what a venue can be: rating (tenths), review count, tag evidence
KindOptions ==
    <<[rating |-> NaN,    user_ratings_total |-> <<0>>,     tags |-> <<>>],
      [rating |-> <<45>>, user_ratings_total |-> <<5000>>,  tags |-> <<[tag_id |-> 1, score |-> 92],
                                                                   [tag_id |-> 1, score |-> 75]>>],
      [rating |-> <<50>>, user_ratings_total |-> <<30000>>, tags |-> <<[tag_id |-> 2, score |-> 75]>>]>>

NumVenueOptions == Len(GeoOptions) * Len(KindOptions)
GeoOf(k) == GeoOptions[((k - 1) \div Len(KindOptions)) + 1]
KindOf(k) == KindOptions[((k - 1) % Len(KindOptions)) + 1]

\* venue tables of n rows; the rows are listed in the order of their options
VenueChoices(n) ==
    {f \in [1..n -> 1..NumVenueOptions] : \A i \in 1..(n - 1) : f[i] <= f[i + 1]}

ProxLocations(f) ==
    [i \in DOMAIN f |->
        [location_id |-> i, lat |-> GeoOf(f[i]).lat, lon |-> GeoOf(f[i]).lon,
         rating |-> KindOf(f[i]).rating,
         user_ratings_total |-> KindOf(f[i]).user_ratings_total]]

RECURSIVE ProxLocationTags(_, _)
ProxLocationTags(f, i) ==
    IF i > Len(f) THEN <<>>
    ELSE [j \in 1..Len(KindOf(f[i]).tags) |->
            [location_id |-> i, tag_id |-> KindOf(f[i]).tags[j].tag_id,
             score |-> KindOf(f[i]).tags[j].score]]
         \o ProxLocationTags(f, i + 1)

ProxUserTagTables ==
    {<<[user_id |-> 1, tag_id |-> 1, score |-> 100],
       [user_id |-> 1, tag_id |-> 2, score |-> 60]>>,
     <<[user_id |-> 1, tag_id |-> 2, score |-> 100],
       [user_id |-> 1, tag_id |-> 1, score |-> -50]>>}

ProxConfigs ==
    {[radius_km |-> r, min_results |-> mn, max_results |-> mx,
      taste_weight |-> 20, proximity_weight |-> 60, quality_weight |-> 20] :
        r \in {1, 2}, mn \in {2, 5}, mx \in {1, 2}}

InitProximal ==
    /\ ApiIdle
    /\ pc = "filter"
    /\ \E n \in 0..MaxVenues : \E f \in VenueChoices(n) :
          /\ locations = ProxLocations(f)
          /\ location_tags = ProxLocationTags(f, 1)
    /\ user_tags \in ProxUserTagTables
    /\ user_id \in {1, 2}
    /\ center = [lat |-> 0, lon |-> 0]
    /\ config \in ProxConfigs
    /\ nearby = <<>>
    /\ filter_radius = 0
    /\ nearby_copy = <<>>
    /\ result = <<>>
    /\ depth = 0
    /\ call_radii = <<config.radius_km>>
    /\ caller_counts = <<>>
    /\ output = <<>>
    /\ user_actions = <<>>
    /\ user_history = <<>>
    /\ pipeline_config = <<>>
    /\ set_order = <<>>
    /\ taste_scores = <<>>
    /\ candidate_map = <<>>
    /\ seen_locations = <<>>
    /\ pending = <<>>
    /\ min_reviews = 0
    /\ sklearn_available = FALSE
    /\ model_df = <<>>
    /\ fit_result = <<>>
    /\ base_df = <<>>
    /\ reviews = <<>>
    /\ review_config = <<>>
    /\ records = <<>>
    /\ tags_df = <<>>
    /\ now = 0
    /\ action_log = <<>>
    /\ rng_stream = <<>>
    /\ first_run = <<>>

NextProximal ==
    \/ ProxFilter
    \/ ProxRetry
    \/ ProxReturnEmpty
    \/ ProxScore
    \/ ProxExpand
    \/ ProxReturn

SpecProximal == InitProximal /\ [][NextProximal]_vars

\* the calls that differ in where the venues are, in radius_km and in
\* min_results: the recursion depends on nothing else
InitTermination ==
    /\ InitProximal
    /\ user_id = 1
    /\ \A k \in 1..Len(user_tags) : user_tags[k].score >= 0
    /\ config.max_results = 2
    /\ location_tags = <<>>
    /\ \A i \in 1..Len(locations) : IsNa(locations[i].rating)

\* the call runs on: a step that is enabled is eventually taken
SpecProximalFair == InitTermination /\ [][NextProximal]_vars /\ WF_vars(NextProximal)

-----------------------------------------------------------------------------
(* Proximal recommender: properties                                        *)

\* the venues with both coordinates known
WithCoordinates ==
    {i \in 1..Len(locations) : ~IsNa(locations[i].lat) /\ ~IsNa(locations[i].lon)}

\* the venues within the radius of the filter that produced the returned rows
InRadiusIds ==
    {locations[i].location_id : i \in
        {k \in 1..Len(locations) :
            WithinRadius(RowDistance(center.lat, center.lon, locations[k]), filter_radius)}}

OutputIds == {output[i].location_id : i \in 1..Len(output)}

\* C1: every returned row's proximity_score is exp(-2 * distance_km / r) for r the
\* radius of the filter that produced the returned rows, also when that filter
\* was the retry with twice radius_km.
C1_ProximityAgainstFilterRadius ==
    pc = "done" =>
        \A i \in 1..Len(output) :
            output[i].proximity_score = ProximityScore(output[i].distance_km, filter_radius)

C3_ReturnedWithinRadius ==
    pc = "done" =>
        \A i \in 1..Len(output) :
            \E k \in 1..Len(locations) :
                /\ locations[k].location_id = output[i].location_id
                /\ ~IsNa(locations[k].lat)
                /\ ~IsNa(locations[k].lon)
                /\ output[i].distance_km =
                       haversine_distance(center.lat, center.lon,
                                          Val(locations[k].lat), Val(locations[k].lon))
                /\ output[i].distance_km <= filter_radius

C3_Witness ==
    /\ pc = "done"
    /\ \E k \in 1..Len(locations) : IsNa(locations[k].lat) \/ IsNa(locations[k].lon)
    /\ \E i \in 1..Len(output) : output[i].distance_km = filter_radius
    /\ filter_radius = 2 * config.radius_km

\* C10: the returned rows are the max_results best of the in-radius venues: at
\* most max_results rows, as many as there are in-radius venues otherwise, ranks
\* 1..N, final_score not increasing with rank, and no in-radius venue left out
\* scores strictly higher than a returned one.
C10_TopByFinalScore ==
    pc = "done" =>
        /\ Len(output) = Min2(config.max_results, Cardinality(InRadiusIds))
        /\ OutputIds \subseteq InRadiusIds
        /\ Cardinality(OutputIds) = Len(output)
        /\ {nearby_copy[j].location_id : j \in 1..Len(nearby_copy)} = InRadiusIds
        /\ \A i \in 1..Len(output) : output[i].rank = i
        /\ \A i \in 1..(Len(output) - 1) : output[i].final_score >= output[i + 1].final_score
        /\ \A j \in 1..Len(nearby_copy) :
              nearby_copy[j].location_id \notin OutputIds =>
                  \A i \in 1..Len(output) :
                      nearby_copy[j].final_score <= output[i].final_score

C10_Witness ==
    /\ pc = "done"
    /\ Len(output) = 2
    /\ Cardinality(InRadiusIds) = 3
    /\ output[1].final_score > output[2].final_score
    /\ \E j \in 1..Len(nearby_copy) :
          /\ nearby_copy[j].location_id \notin OutputIds
          /\ nearby_copy[j].final_score < output[2].final_score

-----------------------------------------------------------------------------
(* Sorting and small helpers shared by the profile builder and the blender *)

RECURSIVE SetToSortedSeq(_)
SetToSortedSeq(S) ==
    IF S = {} THEN <<>>
    ELSE LET m == CHOOSE x \in S : \A y \in S : x <= y
         IN  <<m>> \o SetToSortedSeq(S \ {m})

RECURSIVE Flatten(_)
Flatten(ss) == IF ss = <<>> THEN <<>> ELSE Head(ss) \o Flatten(Tail(ss))

\* a stable sort: Before(a, b) says that a must come before b; rows neither of
\* which must come before the other keep their order
RECURSIVE InsertStable(_, _, _)
InsertStable(Before(_, _), row, s) ==
    IF s = <<>> THEN <<row>>
    ELSE IF Before(Head(s), row) THEN <<Head(s)>> \o InsertStable(Before, row, Tail(s))
    ELSE <<row>> \o s

RECURSIVE StableSort(_, _)
StableSort(Before(_, _), s) ==
    IF s = <<>> THEN <<>>
    ELSE InsertStable(Before, Head(s), StableSort(Before, Tail(s)))

-----------------------------------------------------------------------------
(* User profile builder: src/recommendation/user_profiles.py               *)

RECENCY_HALFLIFE_DAYS == 30

\* DEFAULT_ACTION_WEIGHTS, in tenths; .map() gives NaN for an action type that is
\* not a key and .fillna(0.0) makes it 0
DEFAULT_ACTION_WEIGHTS(action) ==
    CASE action = "save" -> 30
      [] action = "like" -> 20
      [] action = "share_to_bubble" -> 25
      [] action = "detail_view" -> 5
      [] action = "impression" -> 1
      [] action = "dismiss" -> -15
      [] OTHER -> 0

\* np.exp(-age_days / RECENCY_HALFLIFE_DAYS), in percent
Decay(age_days) ==
    PowScaled((Scale * Scale) \div ExpSeries(Scale, 1, 2 * RECENCY_HALFLIFE_DAYS), age_days)
        \div 100

\* lines 96-98: the age of the action in days, read off the clock, never negative
AgeDays(a) == Max2(now - a.created_at, 0)

\* the action's weight in thousandths
ActionWeight(a) == DEFAULT_ACTION_WEIGHTS(a.action) * Decay(AgeDays(a))

\* locations.set_index("google_place_id")["location_id"].to_dict(), looked up by
\* .map(): the last row with the key wins, a key of no row gives NaN
place_to_location(locs, place_id) ==
    LET rows == {i \in 1..Len(locs) : locs[i].google_place_id = place_id}
    IN  IF rows = {} THEN NaN
        ELSE <<locs[CHOOSE i \in rows : \A k \in rows : k <= i].location_id>>

\* the action rows with location_id, without the rows that resolve to no venue
ResolvedActions(actions, locs) ==
    SelectSeq([i \in 1..Len(actions) |->
                  [user_id |-> actions[i].user_id,
                   place_id |-> actions[i].place_id,
                   action |-> actions[i].action,
                   created_at |-> actions[i].created_at,
                   location_id |-> place_to_location(locs, actions[i].place_id)]],
              LAMBDA r : ~IsNa(r.location_id))

\* _apply_action_weights: the weight column, without the rows of weight 0
_apply_action_weights(actions) ==
    SelectSeq([i \in 1..Len(actions) |->
                  [user_id |-> actions[i].user_id,
                   location_id |-> Val(actions[i].location_id),
                   action |-> actions[i].action,
                   weight |-> ActionWeight(actions[i])]],
              LAMBDA r : r.weight # 0)

\* the rows of df_actions.merge(location_tags, on="location_id") of one user and tag
MergedPairs(u, t, df_actions, ltags) ==
    {<<i, j>> \in (1..Len(df_actions)) \X (1..Len(ltags)) :
        /\ df_actions[i].user_id = u
        /\ ltags[j].tag_id = t
        /\ ltags[j].location_id = df_actions[i].location_id}

\* the group's sum of contrib = weight * (score / 100), in units of 1/100000
ContribSum(u, t, df_actions, ltags) ==
    SeqSum([i \in 1..Len(df_actions) |->
        SeqSum([j \in 1..Len(ltags) |->
            IF <<i, j>> \in MergedPairs(u, t, df_actions, ltags)
            THEN df_actions[i].weight * ltags[j].score
            ELSE 0])])

\* agg: one row per (user, tag) group of the merge, in key order
AggOfUser(u, df_actions, ltags) ==
    LET tags == SetToSortedSeq({ltags[j].tag_id : j \in 1..Len(ltags)})
        present == SelectSeq(tags, LAMBDA t : MergedPairs(u, t, df_actions, ltags) # {})
    IN  [k \in 1..Len(present) |->
            [user_id |-> u, tag_id |-> present[k],
             contrib |-> ContribSum(u, present[k], df_actions, ltags)]]

GroupMax(group) ==
    CHOOSE m \in {group[k].contrib : k \in 1..Len(group)} :
        \A k \in 1..Len(group) : group[k].contrib <= m

\* _normalize: the user's rows scaled by the user's largest sum
MutNormalizeNoGuard(group) ==
    LET max_val == GroupMax(group)
    IN  [k \in 1..Len(group) |->
            [user_id |-> group[k].user_id, tag_id |-> group[k].tag_id,
             score |-> IF max_val = 0 THEN 0
                       ELSE (group[k].contrib * 100) \div Abs(max_val),
             raw_score |-> group[k].contrib]]
_normalize(group) ==
    LET max_val == GroupMax(group)
    IN  [k \in 1..Len(group) |->
            [user_id |-> group[k].user_id, tag_id |-> group[k].tag_id,
             score |-> IF max_val <= 0 THEN 0
                       ELSE (group[k].contrib * 100) \div max_val,
             raw_score |-> group[k].contrib]]

\* the affinity rows kept per user
TOP_TAGS == 25

MutAffinityBeforeAscending(a, b) == a.score < b.score
\* sort_values(by=["user_id", "score"], ascending=[True, False]) within one user
AffinityBefore(a, b) == a.score > b.score

\* one user's rows: normalised, sorted by descending score, the first 25 kept
AffinitiesOfUser(u, df_actions, ltags) ==
    LET group == AggOfUser(u, df_actions, ltags)
    IN  IF group = <<>> THEN <<>>
        ELSE HeadN(StableSort(AffinityBefore, _normalize(group)), TOP_TAGS)

HistoryBefore(a, b) == a.n_actions > b.n_actions

\* df_actions.groupby("user_id").size(), most active user first
HistoryOf(df_actions) ==
    LET users == SetToSortedSeq({df_actions[i].user_id : i \in 1..Len(df_actions)})
    IN  StableSort(HistoryBefore,
            [k \in 1..Len(users) |->
                [user_id |-> users[k],
                 n_actions |-> Cardinality({i \in 1..Len(df_actions) :
                                               df_actions[i].user_id = users[k]})]])

EmptyProfiles == [user_tags |-> <<>>, user_history |-> <<>>]

build_user_tag_affinities(actions, ltags, locs) ==
    IF actions = <<>> \/ ltags = <<>> THEN EmptyProfiles
    ELSE LET df_actions == _apply_action_weights(ResolvedActions(actions, locs))
             users == SetToSortedSeq({df_actions[i].user_id : i \in 1..Len(df_actions)})
             normalized ==
                 Flatten([k \in 1..Len(users) |-> AffinitiesOfUser(users[k], df_actions, ltags)])
         IN  IF df_actions = <<>> THEN EmptyProfiles
             ELSE IF normalized = <<>> THEN EmptyProfiles
             ELSE [user_tags |-> normalized, user_history |-> HistoryOf(df_actions)]

-----------------------------------------------------------------------------
(* Recommendation blender: src/pinit/recommendation.py                     *)

\* weights are held in thousandths
WeightScale == 10 * 100

\* the history size below which the taste weight is scaled down
COLD_START_ACTIONS == 5

\* recommendation.py lines 13-20: the weights before they are normalised
ColdStartWeights(base, history_size) ==
    LET reduction == (base.taste * (COLD_START_ACTIONS - history_size)) \div COLD_START_ACTIONS
    IN  IF history_size < COLD_START_ACTIONS
        THEN [base EXCEPT !.taste = (base.taste * history_size) \div COLD_START_ACTIONS,
                          !.trend_app = base.trend_app + (reduction * 6) \div 10,
                          !.quality = base.quality + (reduction * 4) \div 10]
        ELSE base

\* sum(weights.values())
WeightTotal(weights) ==
    weights.taste + weights.trend_app + weights.hidden_gems + weights.quality
        + weights.friend + weights.bubble

\* lines 21-26
NormalizedWeights(weights) ==
    IF WeightTotal(weights) = 0 THEN weights
    ELSE [k \in DOMAIN weights |-> (weights[k] * WeightScale) \div WeightTotal(weights)]

MutAdaptiveNoColdStart(base, history_size) == NormalizedWeights(base)
_adaptive_weights(base, history_size) ==
    NormalizedWeights(ColdStartWeights(base, history_size))

\* _taste_contributions: one row per (user, venue) pair that shares a tag, in key
\* order, with the sum of (user score / 100) * (venue score / 100), not capped
TasteRowsOfUser(u, utags, ltags) ==
    LET profile == SelectSeq(utags, LAMBDA r : r.user_id = u)
        tags == {profile[i].tag_id : i \in 1..Len(profile)}
        locs == SetToSortedSeq({ltags[j].location_id : j \in
                                  {k \in 1..Len(ltags) : ltags[k].tag_id \in tags}})
    IN  [k \in 1..Len(locs) |->
            [user_id |-> u, location_id |-> locs[k],
             taste_score |-> MergedComponentSum(profile, ltags, locs[k])]]

_taste_contributions(utags, ltags) ==
    IF utags = <<>> \/ ltags = <<>> THEN <<>>
    ELSE LET users == SetToSortedSeq({utags[i].user_id : i \in 1..Len(utags)})
         IN  Flatten([k \in 1..Len(users) |-> TasteRowsOfUser(users[k], utags, ltags)])

\* the number of venues taken from the top of each global ranking
TOP_GLOBAL == 250

PopularityBefore(a, b) == a.popularity_score > b.popularity_score
HiddenGemBefore(a, b) == a.hidden_gem_score > b.hidden_gem_score

\* locations.sort_values(...).head(250)["location_id"]
TopIds(Before(_, _), locs) ==
    LET top == HeadN(StableSort(Before, locs), TOP_GLOBAL)
    IN  {top[i].location_id : i \in 1..Len(top)}

\* the users of the affinity table, the history summary and the action log
AllUserIds(utags, history, actions) ==
    {utags[i].user_id : i \in 1..Len(utags)}
        \cup {history[i].user_id : i \in 1..Len(history)}
        \cup {actions[i].user_id : i \in 1..Len(actions)}

\* the users in the order of candidate_map: those with a taste row in the order
\* of their first row
RECURSIVE FirstSeenOrder(_, _)
FirstSeenOrder(rows, done) ==
    IF rows = <<>> THEN <<>>
    ELSE IF Head(rows).user_id \in done THEN FirstSeenOrder(Tail(rows), done)
    ELSE <<Head(rows).user_id>> \o FirstSeenOrder(Tail(rows), done \cup {Head(rows).user_id})

MutCandidatesTasteOnly(u, tastes, top_trend, top_hidden) ==
    {tastes[i].location_id : i \in {k \in 1..Len(tastes) : tastes[k].user_id = u}}

\* _candidate_sets: the taste-matched venues of the user united with both global tops
CandidatesOf(u, tastes, top_trend, top_hidden) ==
    {tastes[i].location_id : i \in {k \in 1..Len(tastes) : tastes[k].user_id = u}}
        \cup top_trend \cup top_hidden

\* _user_seen_locations: the venues that the user's action rows resolve to
MutSeenOnlyPositive(u, actions, locs) ==
    {Val(place_to_location(locs, actions[i].place_id)) : i \in
        {k \in 1..Len(actions) :
            /\ actions[k].user_id = u
            /\ ~IsNa(place_to_location(locs, actions[k].place_id))
            /\ ActionWeight(actions[k]) > 0}}
SeenOf(u, actions, locs) ==
    {Val(place_to_location(locs, actions[i].place_id)) : i \in
        {k \in 1..Len(actions) :
            /\ actions[k].user_id = u
            /\ ~IsNa(place_to_location(locs, actions[k].place_id))}}

\* hist_lookup.get(user_id, len(candidate_ids) // 4)
HistorySize(u, history, candidate_ids) ==
    LET rows == {i \in 1..Len(history) : history[i].user_id = u}
    IN  IF rows = {} THEN Cardinality(candidate_ids) \div 4
        ELSE history[CHOOSE i \in rows : \A k \in rows : k <= i].n_actions

TasteLookup(u, loc_id, tastes) ==
    LET rows == {i \in 1..Len(tastes) :
                    tastes[i].user_id = u /\ tastes[i].location_id = loc_id}
    IN  IF rows = {} THEN 0 ELSE tastes[CHOOSE i \in rows : TRUE].taste_score

\* the row of one candidate: the weighted sum of its four component values
CandidateRow(u, loc, weights, tastes) ==
    LET taste_val == TasteLookup(u, loc.location_id, tastes)
    IN  [user_id |-> u,
         location_id |-> loc.location_id,
         score |-> weights.taste * taste_val
                   + weights.trend_app * loc.popularity_score
                   + weights.hidden_gems * loc.hidden_gem_score
                   + weights.quality * loc.quality_score,
         taste_score |-> taste_val,
         trend_score |-> loc.popularity_score,
         hidden_gem_score |-> loc.hidden_gem_score,
         quality_score |-> loc.quality_score,
         weights |-> weights]

\* the candidate set in the order the loop iterates it
IterationOrder(candidate_ids, order) == SelectSeq(order, LAMBDA id : id \in candidate_ids)

LocationById(locs, id) == locs[CHOOSE i \in 1..Len(locs) : locs[i].location_id = id]

\* sorted(rows, key=score, reverse=True): a stable sort
MutRecommendationBeforeTiesSwapped(a, b) == a.score >= b.score
RecommendationBefore(a, b) == a.score > b.score

WithRankColumn(rows) ==
    [i \in 1..Len(rows) |->
        [user_id |-> rows[i].user_id, location_id |-> rows[i].location_id, rank |-> i,
         score |-> rows[i].score, taste_score |-> rows[i].taste_score,
         trend_score |-> rows[i].trend_score, hidden_gem_score |-> rows[i].hidden_gem_score,
         quality_score |-> rows[i].quality_score, weights |-> rows[i].weights]]

\* the body of the loop over candidate_map for one user: lines 134-182
RowsOfUser(u, candidate_ids, seen, locs, tastes, history, cfg, order) ==
    LET history_size == HistorySize(u, history, candidate_ids)
        weights == _adaptive_weights(cfg.recommendation_weights, history_size)
        ids == SelectSeq(IterationOrder(candidate_ids, order),
                         LAMBDA id : /\ id \notin seen
                                     /\ \E i \in 1..Len(locs) : locs[i].location_id = id)
        rows == [i \in 1..Len(ids) |->
                    CandidateRow(u, LocationById(locs, ids[i]), weights, tastes)]
    IN  WithRankColumn(HeadN(StableSort(RecommendationBefore, rows), cfg.top_k_per_user))

-----------------------------------------------------------------------------
(* The pipeline: profile builder, then blender (src/pinit/pipeline.py)     *)

\* all orders of a finite set
Orderings(S) ==
    {f \in [1..Cardinality(S) -> S] : \A i, j \in 1..Cardinality(S) : i # j => f[i] # f[j]}

\* pipeline.py line 32: user_tags, user_history = build_user_tag_affinities(...)
PipeAffinities ==
    /\ UNCHANGED apiVars
    /\ pc = "affinities"
    /\ LET built == build_user_tag_affinities(user_actions, location_tags, locations)
       IN  /\ user_tags' = built.user_tags
           /\ user_history' = built.user_history
    /\ pc' = "recommend"
    /\ UNCHANGED <<locations, location_tags, proxVars, gemVars, tagVars, runVars, user_actions, pipeline_config,
                   set_order, taste_scores, candidate_map, seen_locations, pending, output>>

\* build_recommendations lines 101-131: taste rows, candidate sets, seen venues.
\* Users with a taste row come first in candidate_map; the others follow in the
\* order a set of strings is iterated, which is any order.
BlendSetup ==
    /\ UNCHANGED apiVars
    /\ pc = "recommend"
    /\ LET tastes == _taste_contributions(user_tags, location_tags)
           top_trend_ids == TopIds(PopularityBefore, locations)
           top_hidden_ids == TopIds(HiddenGemBefore, locations)
           user_ids == AllUserIds(user_tags, user_history, user_actions)
           first == FirstSeenOrder(tastes, {})
       IN  /\ taste_scores' = tastes
           /\ \E rest \in Orderings(user_ids \ SeqToSet(first)) :
                 candidate_map' =
                     [k \in 1..(Len(first) + Len(rest)) |->
                         LET u == IF k <= Len(first) THEN first[k] ELSE rest[k - Len(first)]
                         IN  [user_id |-> u,
                              candidate_ids |->
                                  CandidatesOf(u, tastes, top_trend_ids, top_hidden_ids)]]
           /\ seen_locations' =
                 [u \in {x \in user_ids : SeenOf(x, user_actions, locations) # {}} |->
                     SeenOf(u, user_actions, locations)]
    /\ pending' = candidate_map'
    /\ output' = <<>>
    /\ pc' = "users"
    /\ UNCHANGED <<locations, location_tags, user_tags, proxVars, gemVars, tagVars, runVars, user_actions,
                   user_history, pipeline_config, set_order>>

\* build_recommendations lines 133-182: one pass of the loop over candidate_map
BlendUser ==
    /\ UNCHANGED apiVars
    /\ pc = "users"
    /\ pending # <<>>
    /\ LET e == Head(pending)
           seen == IF e.user_id \in DOMAIN seen_locations
                   THEN seen_locations[e.user_id] ELSE {}
       IN  output' = output \o RowsOfUser(e.user_id, e.candidate_ids, seen, locations,
                                          taste_scores, user_history, pipeline_config,
                                          set_order)
    /\ pending' = Tail(pending)
    /\ UNCHANGED <<pc, locations, location_tags, user_tags, proxVars, gemVars, tagVars, runVars, user_actions,
                   user_history, pipeline_config, set_order, taste_scores, candidate_map,
                   seen_locations>>

\* build_recommendations lines 184-195: the table of all users' rows
BlendReturn ==
    /\ UNCHANGED apiVars
    /\ pc = "users"
    /\ pending = <<>>
    /\ pc' = "done"
    /\ UNCHANGED <<locations, location_tags, user_tags, proxVars, gemVars, tagVars, runVars, pipeVars,
                   output>>

-----------------------------------------------------------------------------
(* The pipeline: inputs                                                    *)

MaxPipeVenues == 4
MaxActions == 2

PlaceIds == <<"p1", "p2", "p3", "p4", "p5", "p6", "p7", "p8">>

\* what a venue can be: its three normalised scores and its tag evidence
PipeKindOptions ==
    <<[popularity_score |-> Scale, hidden_gem_score |-> 0, quality_score |-> Scale \div 2,
       tags |-> <<[tag_id |-> 1, score |-> 37]>>],
      [popularity_score |-> Scale \div 2, hidden_gem_score |-> Scale, quality_score |-> 0,
       tags |-> <<[tag_id |-> 1, score |-> 92]>>],
      [popularity_score |-> 0, hidden_gem_score |-> Scale \div 2, quality_score |-> Scale,
       tags |-> <<[tag_id |-> 2, score |-> 80]>>],
      [popularity_score |-> 0, hidden_gem_score |-> 0, quality_score |-> Scale \div 2,
       tags |-> <<>>]>>

PipeVenueChoices(n) ==
    {f \in [1..n -> 1..Len(PipeKindOptions)] : \A i \in 1..(n - 1) : f[i] <= f[i + 1]}

PipeLocations(f) ==
    [i \in DOMAIN f |->
        [location_id |-> i, google_place_id |-> PlaceIds[i],
         popularity_score |-> PipeKindOptions[f[i]].popularity_score,
         hidden_gem_score |-> PipeKindOptions[f[i]].hidden_gem_score,
         quality_score |-> PipeKindOptions[f[i]].quality_score]]

RECURSIVE PipeLocationTags(_, _)
PipeLocationTags(f, i) ==
    IF i > Len(f) THEN <<>>
    ELSE [j \in 1..Len(PipeKindOptions[f[i]].tags) |->
            [location_id |-> i, tag_id |-> PipeKindOptions[f[i]].tags[j].tag_id,
             score |-> PipeKindOptions[f[i]].tags[j].score]]
         \o PipeLocationTags(f, i + 1)

\* what an action row can be; "px" is the key of no venue, "share" is no key of
\* DEFAULT_ACTION_WEIGHTS.  User 1 saves and dismisses anywhere, shares and views
\* the first venue; user 2 saves.  The run is on day 30: the view is 30 days old,
\* every other action is of the same day.
ActionOptions ==
    LET kinds == <<"save", "dismiss">>
        places == <<"p1", "p2", "px">>
    IN  [k \in 1..(Len(places) * Len(kinds)) |->
            [user_id |-> 1,
             place_id |-> places[((k - 1) \div Len(kinds)) + 1],
             action |-> kinds[((k - 1) % Len(kinds)) + 1],
             created_at |-> 30]]
        \o <<[user_id |-> 1, place_id |-> "p1", action |-> "share", created_at |-> 30],
             [user_id |-> 1, place_id |-> "p1", action |-> "detail_view", created_at |-> 0],
             [user_id |-> 2, place_id |-> "p1", action |-> "save", created_at |-> 30],
             [user_id |-> 2, place_id |-> "px", action |-> "save", created_at |-> 30]>>

\* action logs of n rows; the rows are listed in the order of their options
ActionChoices(n) ==
    {f \in [1..n -> 1..Len(ActionOptions)] : \A i \in 1..(n - 1) : f[i] <= f[i + 1]}

\* RecommendationWeights, in thousandths
DefaultRecommendationWeights ==
    [taste |-> 500, trend_app |-> 150, hidden_gems |-> 200, quality |-> 150,
     friend |-> 0, bubble |-> 0]

InitPipeline ==
    /\ ApiIdle
    /\ pc = "affinities"
    /\ \E n \in 0..MaxPipeVenues : \E f \in PipeVenueChoices(n) :
          /\ locations = PipeLocations(f)
          /\ location_tags = PipeLocationTags(f, 1)
          /\ set_order \in {[i \in 1..n |-> i], [i \in 1..n |-> n + 1 - i]}
    /\ \E n \in 0..MaxActions : \E f \in ActionChoices(n) :
          user_actions = [i \in 1..n |-> ActionOptions[f[i]]]
    /\ action_log = user_actions
    /\ now = 30
    /\ rng_stream = <<>>
    /\ first_run = <<>>
    /\ pipeline_config \in
          {[recommendation_weights |-> DefaultRecommendationWeights, top_k_per_user |-> k,
            synthetic_users |-> FALSE] : k \in {2, 30}}
    /\ user_tags = <<>>
    /\ user_history = <<>>
    /\ taste_scores = <<>>
    /\ candidate_map = <<>>
    /\ seen_locations = <<>>
    /\ pending = <<>>
    /\ output = <<>>
    /\ user_id = 0
    /\ center = <<>>
    /\ config = <<>>
    /\ nearby = <<>>
    /\ filter_radius = 0
    /\ nearby_copy = <<>>
    /\ result = <<>>
    /\ depth = 0
    /\ call_radii = <<>>
    /\ caller_counts = <<>>
    /\ min_reviews = 0
    /\ sklearn_available = FALSE
    /\ model_df = <<>>
    /\ fit_result = <<>>
    /\ base_df = <<>>
    /\ reviews = <<>>
    /\ review_config = <<>>
    /\ records = <<>>
    /\ tags_df = <<>>

NextPipeline ==
    \/ PipeAffinities
    \/ BlendSetup
    \/ BlendUser
    \/ BlendReturn

SpecPipeline == InitPipeline /\ [][NextPipeline]_vars

-----------------------------------------------------------------------------
(* The pipeline: properties                                                *)

AffinitiesBuilt == pc \in {"recommend", "users", "done"}

LogUsers == {user_actions[i].user_id : i \in 1..Len(user_actions)}

AffinityScoresOf(u) ==
    {user_tags[i].score : i \in {k \in 1..Len(user_tags) : user_tags[k].user_id = u}}

\* the action resolves to a venue that has at least one tag evidence row
ResolvesToTagged(a) ==
    LET loc == place_to_location(locations, a.place_id)
    IN  /\ ~IsNa(loc)
        /\ \E j \in 1..Len(location_tags) : location_tags[j].location_id = Val(loc)

\* the user's accumulated sum for a tag, over the whole action log
TagSum(u, t) ==
    SeqSum([i \in 1..Len(user_actions) |->
        SeqSum([j \in 1..Len(location_tags) |->
            IF /\ user_actions[i].user_id = u
               /\ location_tags[j].tag_id = t
               /\ place_to_location(locations, user_actions[i].place_id)
                      = <<location_tags[j].location_id>>
            THEN ActionWeight(user_actions[i]) * location_tags[j].score
            ELSE 0])])

HasPositiveSum(u) ==
    \E j \in 1..Len(location_tags) : TagSum(u, location_tags[j].tag_id) > 0

\* C4: a venue that a user's action of non-zero weight resolves to is in none of
\* that user's recommendation rows.
C4_SeenNeverRecommended ==
    \A r \in 1..Len(output) :
        ~\E i \in 1..Len(user_actions) :
            /\ user_actions[i].user_id = output[r].user_id
            /\ ActionWeight(user_actions[i]) # 0
            /\ place_to_location(locations, user_actions[i].place_id)
                   = <<output[r].location_id>>

C4_Witness ==
    /\ pc = "done"
    /\ \E i \in 1..Len(user_actions) :
          /\ ActionWeight(user_actions[i]) < 0
          /\ ~IsNa(place_to_location(locations, user_actions[i].place_id))
          /\ \E r \in 1..Len(output) : output[r].user_id = user_actions[i].user_id
          /\ \E r \in 1..Len(output) :
                /\ output[r].user_id # user_actions[i].user_id
                /\ <<output[r].location_id>>
                       = place_to_location(locations, user_actions[i].place_id)

\* C5: a user with no row in the history summary (no counted action) is scored
\* with a taste weight of exactly 0, whatever the size of the candidate set.
C5_ColdStartTasteZero ==
    \A r \in 1..Len(output) :
        (\A h \in 1..Len(user_history) : user_history[h].user_id # output[r].user_id)
            => output[r].weights.taste = 0

\* C6: every affinity score lies in [0, 100].
C6_AffinityInRange ==
    AffinitiesBuilt =>
        \A i \in 1..Len(user_tags) : user_tags[i].score >= 0 /\ user_tags[i].score <= 100

\* C7 as stated: a user with a positive-weight action that resolves to a tagged
\* venue has a largest affinity score of exactly 100, and every other user of the
\* action log has no affinity row.
C7_MaxIs100OrNoRows ==
    AffinitiesBuilt =>
        \A u \in LogUsers :
            IF \E i \in 1..Len(user_actions) :
                  /\ user_actions[i].user_id = u
                  /\ ActionWeight(user_actions[i]) > 0
                  /\ ResolvesToTagged(user_actions[i])
            THEN AffinityScoresOf(u) # {} /\ \A x \in AffinityScoresOf(u) : x <= 100
                 /\ 100 \in AffinityScoresOf(u)
            ELSE AffinityScoresOf(u) = {}

\* C7 as amended: a user whose largest per-tag sum is positive has a largest
\* affinity score of exactly 100; a user with an action of non-zero weight that
\* resolves to a tagged venue but with no positive per-tag sum has rows, all of
\* score 0; a user with no action of non-zero weight that resolves to a tagged
\* venue has no affinity row.
C7_MaxIs100WhenSumPositive ==
    AffinitiesBuilt =>
        \A u \in LogUsers :
            LET engaged == \E i \in 1..Len(user_actions) :
                              /\ user_actions[i].user_id = u
                              /\ ActionWeight(user_actions[i]) # 0
                              /\ ResolvesToTagged(user_actions[i])
            IN  /\ HasPositiveSum(u) =>
                      /\ 100 \in AffinityScoresOf(u)
                      /\ \A x \in AffinityScoresOf(u) : x <= 100
                /\ engaged /\ ~HasPositiveSum(u) => AffinityScoresOf(u) = {0}
                /\ ~engaged => AffinityScoresOf(u) = {}

C7_Witness ==
    /\ AffinitiesBuilt
    /\ \E i \in 1..Len(user_actions) :
          /\ ActionWeight(user_actions[i]) > 0
          /\ ResolvesToTagged(user_actions[i])
          /\ ~HasPositiveSum(user_actions[i].user_id)
          /\ AffinityScoresOf(user_actions[i].user_id) = {0}

RecommendationsOf(u) == SelectSeq(output, LAMBDA r : r.user_id = u)

\* position of a venue in the iteration order of the candidate sets
IterationIndex(id) == CHOOSE k \in 1..Len(set_order) : set_order[k] = id

\* C9: a user's rows are at most top_k, ranked 1..N, with scores that do not
\* increase with rank, and rows of equal score are in the order in which the
\* candidate set was iterated.
C9_RankedStable ==
    \A u \in {output[r].user_id : r \in 1..Len(output)} :
        LET rows == RecommendationsOf(u)
        IN  /\ Len(rows) <= pipeline_config.top_k_per_user
            /\ \A i \in 1..Len(rows) : rows[i].rank = i
            /\ \A i, j \in 1..Len(rows) :
                  i < j =>
                      /\ rows[i].score >= rows[j].score
                      /\ rows[i].location_id # rows[j].location_id
                      /\ rows[i].score = rows[j].score =>
                            IterationIndex(rows[i].location_id)
                                < IterationIndex(rows[j].location_id)

C9_Witness ==
    /\ pc = "done"
    /\ Len(set_order) >= 3
    /\ set_order[1] > set_order[2]
    /\ \E u \in {output[r].user_id : r \in 1..Len(output)} :
          LET rows == RecommendationsOf(u)
          IN  /\ Len(rows) = 2
              /\ pipeline_config.top_k_per_user = 2
              /\ rows[1].score = rows[2].score
              /\ Cardinality({k \in 1..Len(candidate_map) : candidate_map[k].user_id = u
                                 /\ Cardinality(candidate_map[k].candidate_ids) >= 3}) = 1

-----------------------------------------------------------------------------
(* Hidden gems: src/pinit/hidden_gems.py                                   *)
(* Ratings are held in tenths, log_reviews in thousandths, scores that the *)
(* code min-max scales in units of 1/Scale.                                *)

MIN_MODEL_ROWS == 50
DEFAULT_MIN_REVIEWS == 40

SeqMin(s) == CHOOSE x \in SeqToSet(s) : \A y \in SeqToSet(s) : x <= y

SeqMax(s) == CHOOSE x \in SeqToSet(s) : \A y \in SeqToSet(s) : x >= y

\* hidden_gems.py lines 44-49; an empty series has a NaN minimum
_min_max_scale(values) ==
    IF values = <<>> THEN <<>>
    ELSE LET v_min == SeqMin(values)
             v_max == SeqMax(values)
         IN  IF v_min = v_max
             THEN [i \in 1..Len(values) |-> 0]
             ELSE [i \in 1..Len(values) |->
                      ((values[i] - v_min) * Scale) \div (v_max - v_min)]

\* tagging.py lines 47-52 on a column that can hold NaN: min() and max() skip NaN
\* and are NaN when no value is left; math.isclose(NaN, NaN) is false, and
\* arithmetic with NaN gives NaN
tagging_min_max_scale(values) ==
    LET held == {Val(values[i]) : i \in {k \in 1..Len(values) : ~IsNa(values[k])}}
    IN  IF held = {} THEN [i \in 1..Len(values) |-> NaN]
        ELSE LET v_min == CHOOSE x \in held : \A y \in held : x <= y
                 v_max == CHOOSE x \in held : \A y \in held : x >= y
             IN  IF v_min = v_max THEN [i \in 1..Len(values) |-> <<0>>]
                 ELSE [i \in 1..Len(values) |->
                          IF IsNa(values[i]) THEN NaN
                          ELSE <<((Val(values[i]) - v_min) * Scale) \div (v_max - v_min)>>]

\* rating.mean(): NaN when no venue has a rating
RatingMean(details) ==
    LET rated == SelectSeq(details, LAMBDA row : ~IsNa(row.rating))
    IN  IF rated = <<>> THEN NaN
        ELSE <<SeqSum([i \in 1..Len(rated) |-> Val(rated[i].rating)]) \div Len(rated)>>

\* tagging.py lines 162-168: the mean of log_reviews over the venue's
\* (cuisine_primary, price_bucket) group, and the residual against that mean
ResidualPopularity(details) ==
    LET SameGroup(i, j) ==
            /\ details[i].cuisine_primary = details[j].cuisine_primary
            /\ details[i].price_bucket = details[j].price_bucket
        by_group(i) ==
            SeqSum([j \in 1..Len(details) |->
                       IF SameGroup(i, j) THEN Log1pMilli(details[j].user_ratings_total) ELSE 0])
                \div Cardinality({j \in 1..Len(details) : SameGroup(i, j)})
    IN  [i \in 1..Len(details) |-> Log1pMilli(details[i].user_ratings_total) - by_group(i)]

\* tagging.py line 124: location_id counts the rows of the details file from 1
WithLocationIds(details) ==
    [i \in 1..Len(details) |->
        [location_id |-> i,
         place_id |-> details[i].place_id,
         rating |-> details[i].rating,
         user_ratings_total |-> details[i].user_ratings_total,
         cuisine_primary |-> details[i].cuisine_primary,
         price_bucket |-> details[i].price_bucket]]

WithGrid(row, grid_id) ==
    [location_id |-> row.location_id,
     place_id |-> row.place_id,
     grid_id |-> grid_id,
     rating |-> row.rating,
     user_ratings_total |-> row.user_ratings_total,
     cuisine_primary |-> row.cuisine_primary,
     price_bucket |-> row.price_bucket]

\* tagging.py line 142, df.merge(base, on="place_id", how="left"): every row of df
\* in its order, once for each row of base with its place_id, or once with a NaN
\* grid_id when base has none
RECURSIVE LeftMerge(_, _)
LeftMerge(df, base) ==
    IF df = <<>> THEN <<>>
    ELSE LET matches == SelectSeq(base, LAMBDA b : b.place_id = Head(df).place_id)
             joined == IF matches = <<>> THEN <<WithGrid(Head(df), NaN)>>
                       ELSE [k \in 1..Len(matches) |-> WithGrid(Head(df), matches[k].grid_id)]
         IN  joined \o LeftMerge(Tail(df), base)

\* tagging.py lines 123-144: the ids are given first, the grid_id column is merged
\* in afterwards, or is all NaN without a base file that has the column
MergedDetails(details, base) ==
    IF IsNa(base)
    THEN [i \in 1..Len(details) |-> WithGrid(WithLocationIds(details)[i], NaN)]
    ELSE LeftMerge(WithLocationIds(details), Val(base))

\* the venue table with its derived columns
LoadedRows(details, residual, popularity, hidden, quality) ==
    [i \in 1..Len(details) |->
        [index |-> i,
         location_id |-> details[i].location_id,
         google_place_id |-> details[i].place_id,
         grid_id |-> details[i].grid_id,
         rating |-> details[i].rating,
         user_ratings_total |-> details[i].user_ratings_total,
         cuisine_primary |-> details[i].cuisine_primary,
         price_bucket |-> details[i].price_bucket,
         log_reviews |-> Log1pMilli(details[i].user_ratings_total),
         popularity_score |-> popularity[i],
         residual_popularity |-> <<residual[i]>>,
         hidden_gem_score |-> hidden[i],
         quality_score |-> quality[i]]]

LoadedScores(details, residual, mean_rating) ==
    LoadedRows(details, residual,
        tagging_min_max_scale([i \in 1..Len(details) |->
            <<Log1pMilli(details[i].user_ratings_total)>>]),
        tagging_min_max_scale([i \in 1..Len(details) |-> <<Abs(Min2(residual[i], 0))>>]),
        tagging_min_max_scale([i \in 1..Len(details) |->
            IF IsNa(details[i].rating) THEN mean_rating ELSE details[i].rating]))

\* tagging.py lines 119-172: the merged rows with log_reviews, the residual and
\* the three min-max scaled scores
load_locations(details, base) ==
    CHOOSE rows \in UNION {{LoadedScores(df, residual, mean_rating) :
                               residual \in {ResidualPopularity(df)},
                               mean_rating \in {RatingMean(df)}} :
                           df \in {MergedDetails(details, base)}} : TRUE

\* lines 62-96: the rows with a rating; user_ratings_total is already filled
_prepare_model_frame(locs) == SelectSeq(locs, LAMBDA row : ~IsNa(row.rating))

\* the feature values of a row that differ between rows of the modelled tables
FeaturesOf(row) == <<row.user_ratings_total, row.cuisine_primary, row.grid_id>>

MutSignalUngated(signal, review_count, threshold) == signal
\* line 172: signal.where(review_counts >= min_reviews, 0.0)
GatedSignal(signal, review_count, threshold) ==
    IF review_count >= threshold THEN signal ELSE 0

MutFitWithoutRowMinimum(frame, threshold, fit_ok, predict) ==
    IF ~sklearn_available THEN NaN
    ELSE IF ~fit_ok \/ frame = <<>> THEN NaN
    ELSE LET expected_rating == [i \in 1..Len(frame) |-> predict[FeaturesOf(frame[i])]]
             hype_residual == [i \in 1..Len(frame) |-> Val(frame[i].rating) - expected_rating[i]]
             review_weight ==
                 _min_max_scale([i \in 1..Len(frame) |-> Log1pMilli(frame[i].user_ratings_total)])
             signal == [i \in 1..Len(frame) |->
                 GatedSignal((Max2(hype_residual[i], 0) * (35 * Scale + 65 * review_weight[i])) \div 100,
                             frame[i].user_ratings_total, threshold)]
         IN  <<[index |-> [i \in 1..Len(frame) |-> frame[i].index],
                expected_rating |-> expected_rating,
                hype_residual |-> hype_residual,
                signal |-> signal]>>
\* lines 110-173.  fit_ok is whether pipe.fit returned without raising and predict
\* is the fitted regressor, a map from feature values to a rating; both belong to
\* the regression library.  The frame always has feature columns (line 122).
_fit_hype_model(frame, threshold, fit_ok, predict) ==
    IF ~sklearn_available THEN NaN
    ELSE IF Len(frame) < MIN_MODEL_ROWS THEN NaN
    ELSE IF ~fit_ok THEN NaN
    ELSE LET expected_rating == [i \in 1..Len(frame) |-> predict[FeaturesOf(frame[i])]]
             hype_residual == [i \in 1..Len(frame) |-> Val(frame[i].rating) - expected_rating[i]]
             review_weight ==
                 _min_max_scale([i \in 1..Len(frame) |-> Log1pMilli(frame[i].user_ratings_total)])
             signal == [i \in 1..Len(frame) |->
                 GatedSignal((Max2(hype_residual[i], 0) * (35 * Scale + 65 * review_weight[i])) \div 100,
                             frame[i].user_ratings_total, threshold)]
         IN  <<[index |-> [i \in 1..Len(frame) |-> frame[i].index],
                expected_rating |-> expected_rating,
                hype_residual |-> hype_residual,
                signal |-> signal]>>

\* lines 176-180
_legacy_hidden_gem(df) ==
    IF \A i \in 1..Len(df) : IsNa(df[i].residual_popularity)
    THEN [i \in 1..Len(df) |-> 0]
    ELSE _min_max_scale([i \in 1..Len(df) |-> Abs(Min2(Fill(df[i].residual_popularity, 0), 0))])

\* the value a series indexed by the model frame holds for a venue, if any
AtIndex(fit, column, id) ==
    LET hits == {k \in 1..Len(fit.index) : fit.index[k] = id}
    IN  IF hits = {} THEN NaN ELSE <<column[CHOOSE k \in hits : TRUE]>>

WithGemColumns(df, score, source, fit) ==
    [i \in 1..Len(df) |->
        [location_id |-> df[i].location_id,
         rating |-> df[i].rating,
         user_ratings_total |-> df[i].user_ratings_total,
         popularity_score |-> df[i].popularity_score,
         quality_score |-> df[i].quality_score,
         hidden_gem_score |-> score[i],
         hidden_gem_source |-> source,
         expected_rating |->
             IF IsNa(fit) THEN NaN ELSE AtIndex(Val(fit), Val(fit).expected_rating, df[i].index),
         hype_residual |->
             IF IsNa(fit) THEN NaN ELSE AtIndex(Val(fit), Val(fit).hype_residual, df[i].index)]]

WithoutResidual(locs) ==
    [i \in 1..Len(locs) |-> [locs[i] EXCEPT !.residual_popularity = NaN]]

\* tagging.py lines 119-172: the venue table is built from the details file; the
\* caller hands it on with or without the residual_popularity column
GemLoad ==
    /\ UNCHANGED apiVars
    /\ pc = "load"
    /\ \E has_residual \in BOOLEAN :
          locations' = IF has_residual THEN load_locations(locations, base_df)
                       ELSE WithoutResidual(load_locations(locations, base_df))
    /\ pc' = "prepare"
    /\ UNCHANGED <<user_tags, location_tags, proxVars, pipeVars, runVars, gemVars, tagVars, output>>

\* add_hidden_gem_scores lines 186-187
GemPrepare ==
    /\ UNCHANGED apiVars
    /\ pc = "prepare"
    /\ model_df' = _prepare_model_frame(locations)
    /\ pc' = "fit"
    /\ UNCHANGED <<locations, user_tags, location_tags, proxVars, pipeVars, runVars, min_reviews,
                   sklearn_available, fit_result, base_df, tagVars, output>>

PredictedRatings == {35, 45}

\* line 190
GemFit ==
    /\ UNCHANGED apiVars
    /\ pc = "fit"
    /\ \E fit_ok \in BOOLEAN :
       \E predict \in [{FeaturesOf(model_df[i]) : i \in 1..Len(model_df)} -> PredictedRatings] :
          fit_result' = _fit_hype_model(model_df, min_reviews, fit_ok, predict)
    /\ pc' = "score"
    /\ UNCHANGED <<locations, user_tags, location_tags, proxVars, pipeVars, runVars, min_reviews,
                   sklearn_available, model_df, base_df, tagVars, output>>

\* lines 191-196: no model, the popularity residual of the venue table is used
GemReturnLegacy ==
    /\ UNCHANGED apiVars
    /\ pc = "score"
    /\ IsNa(fit_result)
    /\ output' = WithGemColumns(locations, _legacy_hidden_gem(locations),
                                "popularity_residual", NaN)
    /\ pc' = "done"
    /\ UNCHANGED <<locations, user_tags, location_tags, proxVars, pipeVars, runVars, gemVars, tagVars>>

\* lines 197-211
GemReturnScored ==
    /\ UNCHANGED apiVars
    /\ pc = "score"
    /\ ~IsNa(fit_result)
    /\ LET signal_full == [i \in 1..Len(locations) |->
               Fill(AtIndex(Val(fit_result), Val(fit_result).signal, locations[i].index), 0)]
       IN  output' =
               IF SeqMax(signal_full) <= 0
               THEN WithGemColumns(locations, _legacy_hidden_gem(locations),
                                   "popularity_residual", fit_result)
               ELSE WithGemColumns(locations,
                                   _min_max_scale([i \in 1..Len(locations) |-> Max2(signal_full[i], 0)]),
                                   "rating_model", fit_result)
    /\ pc' = "done"
    /\ UNCHANGED <<locations, user_tags, location_tags, proxVars, pipeVars, runVars, gemVars, tagVars>>

-----------------------------------------------------------------------------
(* Hidden gems: inputs                                                     *)

MaxGemVenues == 2

\* the venues that vary: rating missing, 4.0 or 4.8; 5 or 5000 reviews; two cuisines
GemVenueOptions ==
    <<[rating |-> NaN,    user_ratings_total |-> 5,    cuisine_primary |-> "italian", price_bucket |-> "mid"],
      [rating |-> <<48>>, user_ratings_total |-> 5,    cuisine_primary |-> "italian", price_bucket |-> "mid"],
      [rating |-> <<40>>, user_ratings_total |-> 5,    cuisine_primary |-> "italian", price_bucket |-> "mid"],
      [rating |-> <<48>>, user_ratings_total |-> 5,    cuisine_primary |-> "thai",    price_bucket |-> "mid"],
      [rating |-> <<40>>, user_ratings_total |-> 5000, cuisine_primary |-> "italian", price_bucket |-> "mid"],
      [rating |-> <<48>>, user_ratings_total |-> 5000, cuisine_primary |-> "italian", price_bucket |-> "mid"],
      [rating |-> <<40>>, user_ratings_total |-> 5000, cuisine_primary |-> "thai",    price_bucket |-> "mid"]>>

\* the other venues of a large table are all alike
CommonVenue ==
    [rating |-> <<40>>, user_ratings_total |-> 100, cuisine_primary |-> "italian", price_bucket |-> "mid"]

\* the rows of a details file: each place is listed once, under its own place_id
DetailsFile(rows) ==
    [i \in 1..Len(rows) |->
        [place_id |-> i,
         rating |-> rows[i].rating,
         user_ratings_total |-> rows[i].user_ratings_total,
         cuisine_primary |-> rows[i].cuisine_primary,
         price_bucket |-> rows[i].price_bucket]]

GemVenueChoices(n) ==
    {f \in [1..n -> 1..Len(GemVenueOptions)] : \A i \in 1..(n - 1) : f[i] <= f[i + 1]}

InitHiddenGems ==
    /\ ApiIdle
    /\ pc = "load"
    /\ \E n \in 0..MaxGemVenues : \E f \in GemVenueChoices(n) :
       \E common \in {0, MIN_MODEL_ROWS - 1, MIN_MODEL_ROWS} :
          locations = DetailsFile([i \in 1..(n + common) |->
                                      IF i <= n THEN GemVenueOptions[f[i]] ELSE CommonVenue])
    /\ min_reviews \in {DEFAULT_MIN_REVIEWS, 6000}
    /\ sklearn_available \in BOOLEAN
    /\ model_df = <<>>
    /\ fit_result = <<>>
    /\ base_df = <<>>
    /\ reviews = <<>>
    /\ review_config = <<>>
    /\ records = <<>>
    /\ tags_df = <<>>
    /\ now = 0
    /\ action_log = <<>>
    /\ rng_stream = <<>>
    /\ first_run = <<>>
    /\ output = <<>>
    /\ user_tags = <<>>
    /\ location_tags = <<>>
    /\ user_actions = <<>>
    /\ user_history = <<>>
    /\ pipeline_config = <<>>
    /\ set_order = <<>>
    /\ taste_scores = <<>>
    /\ candidate_map = <<>>
    /\ seen_locations = <<>>
    /\ pending = <<>>
    /\ user_id = 0
    /\ center = <<>>
    /\ config = <<>>
    /\ nearby = <<>>
    /\ filter_radius = 0
    /\ nearby_copy = <<>>
    /\ result = <<>>
    /\ depth = 0
    /\ call_radii = <<>>
    /\ caller_counts = <<>>

NextHiddenGems ==
    \/ GemLoad
    \/ GemPrepare
    \/ GemFit
    \/ GemReturnLegacy
    \/ GemReturnScored

SpecHiddenGems == InitHiddenGems /\ [][NextHiddenGems]_vars

-----------------------------------------------------------------------------
(* Hidden gems: properties                                                 *)

C8_TwoVenueExample ==
    (/\ pc = "done"
     /\ min_reviews = DEFAULT_MIN_REVIEWS
     /\ Len(output) = 2
     /\ output[1].rating = <<48>> /\ output[1].user_ratings_total = 5
     /\ output[2].rating = <<40>> /\ output[2].user_ratings_total = 5000)
        => output[1].hidden_gem_score = 0

-----------------------------------------------------------------------------
(* The pipeline: candidate sets                                            *)

CandidateSetsBuilt == pc \in {"users", "done"}

KnownUsers ==
    {user_tags[i].user_id : i \in 1..Len(user_tags)}
        \cup {user_history[i].user_id : i \in 1..Len(user_history)}
        \cup {user_actions[i].user_id : i \in 1..Len(user_actions)}

\* the venues that share a tag with one of the user's affinity rows
TasteMatched(u) ==
    {location_tags[j].location_id : j \in
        {k \in 1..Len(location_tags) :
            \E i \in 1..Len(user_tags) :
                user_tags[i].user_id = u /\ user_tags[i].tag_id = location_tags[k].tag_id}}

\* T holds the ids of min(250, n) venues, none of them scored below a venue left out
IsGlobalTop(T, Score(_)) ==
    /\ T \subseteq {locations[i].location_id : i \in 1..Len(locations)}
    /\ Cardinality(T) = Min2(TOP_GLOBAL, Len(locations))
    /\ \A i, j \in 1..Len(locations) :
          (locations[i].location_id \in T /\ locations[j].location_id \notin T)
              => Score(locations[i]) >= Score(locations[j])

PopularityOf(row) == row.popularity_score
HiddenGemOf(row) == row.hidden_gem_score

-----------------------------------------------------------------------------
(* The pipeline: the action log, synthesized when there is none            *)
(* (src/recommendation/user_profiles.py lines 17-88)                       *)

\* the built-in personas; of the tags they list, the modelled venues carry
\* "italian" (tag 1, demo_date_night) and "cafe" (tag 2, demo_vegan), and none
\* of the tags of demo_group_hang
SYNTHETIC_PROFILES ==
    <<[user_id |-> 101, tags |-> {1}],
      [user_id |-> 102, tags |-> {2}],
      [user_id |-> 103, tags |-> {}]>>

SYNTHETIC_ROWS == 12

\* lines 48-59: the venues with a tag of the persona, one row per venue in the order
\* of location_id, the first twelve
ChosenOf(profile, ltags) ==
    HeadN(SetToSortedSeq({ltags[j].location_id : j \in
              {k \in 1..Len(ltags) : ltags[k].tag_id \in profile.tags}}),
          SYNTHETIC_ROWS)

\* lines 60-75: one action per chosen venue with a place key; each takes the next
\* draw of the generator and is dated days_ago before the clock
RECURSIVE SynthRows(_, _, _, _, _)
SynthRows(profiles, locs, ltags, stream, clock) ==
    IF profiles = <<>> THEN <<>>
    ELSE LET chosen == SelectSeq(ChosenOf(Head(profiles), ltags),
                                 LAMBDA id : \E i \in 1..Len(locs) : locs[i].location_id = id)
             rows == [k \in 1..Len(chosen) |->
                         [user_id |-> Head(profiles).user_id,
                          place_id |-> LocationById(locs, chosen[k]).google_place_id,
                          action |-> stream[k].action,
                          created_at |-> clock - stream[k].days_ago]]
         IN  rows \o SynthRows(Tail(profiles), locs, ltags,
                               SubSeq(stream, Len(chosen) + 1, Len(stream)), clock)

synthesize_user_actions(locs, ltags, stream, clock) ==
    SynthRows(SYNTHETIC_PROFILES, locs, ltags, stream, clock)

\* lines 79-88
ensure_user_actions(log, locs, ltags, allow_synthetic, stream, clock) ==
    IF log = <<>> /\ allow_synthetic
    THEN synthesize_user_actions(locs, ltags, stream, clock)
    ELSE log

\* pipeline.py lines 29-31
PipeEnsure ==
    /\ UNCHANGED apiVars
    /\ pc = "ensure"
    /\ user_actions' = ensure_user_actions(action_log, locations, location_tags,
                                           pipeline_config.synthetic_users, rng_stream, now)
    /\ pc' = "affinities"
    /\ UNCHANGED <<locations, location_tags, user_tags, proxVars, gemVars, tagVars, runVars,
                   user_history, pipeline_config, set_order, taste_scores, candidate_map,
                   seen_locations, pending, output>>

\* run_pipeline is called again with the same files and configuration, the same
\* day or later; the tables of the first call are kept for comparison
PipeRerun ==
    /\ UNCHANGED apiVars
    /\ pc = "done"
    /\ first_run = <<>>
    /\ first_run' = <<[user_actions |-> user_actions, user_tags |-> user_tags,
                       user_history |-> user_history, recommendations |-> output]>>
    /\ \E elapsed \in {0, 30} : now' = now + elapsed
    /\ pc' = "ensure"
    /\ user_actions' = <<>>
    /\ user_tags' = <<>>
    /\ user_history' = <<>>
    /\ taste_scores' = <<>>
    /\ candidate_map' = <<>>
    /\ seen_locations' = <<>>
    /\ pending' = <<>>
    /\ output' = <<>>
    /\ UNCHANGED <<locations, location_tags, proxVars, gemVars, tagVars, action_log, rng_stream,
                   pipeline_config, set_order>>

MaxRunVenues == 2
MaxRunActions == 2

\* what the generator can draw: an action type and a number of days in 0..89
DrawOptions ==
    <<[action |-> "save", days_ago |-> 0],
      [action |-> "like", days_ago |-> 30],
      [action |-> "detail_view", days_ago |-> 0]>>

\* the seed is fixed, so a run has one stream; which one is not known to the model
RngStreams ==
    {[k \in 1..(2 * (MaxRunVenues + 1)) |-> DrawOptions[((k + o) % Len(DrawOptions)) + 1]] :
        o \in {0, 1}}

InitTwoRuns ==
    /\ ApiIdle
    /\ pc = "ensure"
    /\ \E n \in 0..MaxRunVenues : \E f \in PipeVenueChoices(n) :
          /\ locations = PipeLocations(f)
          /\ location_tags = PipeLocationTags(f, 1)
          /\ set_order = [i \in 1..n |-> i]
    /\ \E n \in 0..MaxRunActions : \E f \in ActionChoices(n) :
          action_log = [i \in 1..n |-> ActionOptions[f[i]]]
    /\ pipeline_config \in
          {[recommendation_weights |-> DefaultRecommendationWeights, top_k_per_user |-> 30,
            synthetic_users |-> b] : b \in BOOLEAN}
    /\ rng_stream \in RngStreams
    /\ now = 30
    /\ first_run = <<>>
    /\ user_actions = <<>>
    /\ user_tags = <<>>
    /\ user_history = <<>>
    /\ taste_scores = <<>>
    /\ candidate_map = <<>>
    /\ seen_locations = <<>>
    /\ pending = <<>>
    /\ output = <<>>
    /\ user_id = 0
    /\ center = <<>>
    /\ config = <<>>
    /\ nearby = <<>>
    /\ filter_radius = 0
    /\ nearby_copy = <<>>
    /\ result = <<>>
    /\ depth = 0
    /\ call_radii = <<>>
    /\ caller_counts = <<>>
    /\ min_reviews = 0
    /\ sklearn_available = FALSE
    /\ model_df = <<>>
    /\ fit_result = <<>>
    /\ base_df = <<>>
    /\ reviews = <<>>
    /\ review_config = <<>>
    /\ records = <<>>
    /\ tags_df = <<>>

NextTwoRuns ==
    \/ PipeEnsure
    \/ PipeAffinities
    \/ BlendSetup
    \/ BlendUser
    \/ BlendReturn
    \/ PipeRerun

SpecTwoRuns == InitTwoRuns /\ [][NextTwoRuns]_vars

\* C12: the second of two runs on the same inputs ends with the tables of the
\* first: the same action rows, affinities, history and recommendations.
C12_RunsIdentical ==
    (pc = "done" /\ first_run # <<>>) =>
        /\ user_actions = first_run[1].user_actions
        /\ user_tags = first_run[1].user_tags
        /\ user_history = first_run[1].user_history
        /\ output = first_run[1].recommendations

\* the same, for two runs that read the same clock
C12_RunsIdenticalSameDay ==
    (pc = "done" /\ first_run # <<>> /\ now = 30) =>
        /\ user_actions = first_run[1].user_actions
        /\ user_tags = first_run[1].user_tags
        /\ user_history = first_run[1].user_history
        /\ output = first_run[1].recommendations

-----------------------------------------------------------------------------
(* The venue table: normalised scores                                      *)

InUnitInterval(x) == ~IsNa(x) /\ Val(x) >= 0 /\ Val(x) <= Scale

VenueTableLoaded == pc \in {"prepare", "fit", "score", "done"}

\* the ratings as load_locations normalises them: a missing rating takes the mean
FilledRatings ==
    {IF IsNa(locations[i].rating)
     THEN RatingMean(locations) ELSE locations[i].rating : i \in 1..Len(locations)}

\* C13: after load_locations, and after add_hidden_gem_scores, popularity_score,
\* hidden_gem_score and quality_score of every venue are in [0, 1]; a column whose
\* values are all equal, or all missing, is 0 for every venue.
C13_ScoresInUnitInterval ==
    /\ VenueTableLoaded =>
          /\ \A i \in 1..Len(locations) :
                /\ InUnitInterval(locations[i].popularity_score)
                /\ InUnitInterval(locations[i].hidden_gem_score)
                /\ InUnitInterval(locations[i].quality_score)
          /\ Cardinality(FilledRatings) <= 1 =>
                \A i \in 1..Len(locations) : locations[i].quality_score = <<0>>
          /\ Cardinality({locations[i].user_ratings_total : i \in 1..Len(locations)}) <= 1 =>
                \A i \in 1..Len(locations) : locations[i].popularity_score = <<0>>
    /\ pc = "done" =>
          \A i \in 1..Len(output) :
              /\ InUnitInterval(output[i].popularity_score)
              /\ InUnitInterval(<<output[i].hidden_gem_score>>)
              /\ InUnitInterval(output[i].quality_score)

\* the same without quality_score
C13_PopularityAndHiddenGemInUnitInterval ==
    /\ VenueTableLoaded =>
          /\ \A i \in 1..Len(locations) :
                /\ InUnitInterval(locations[i].popularity_score)
                /\ InUnitInterval(locations[i].hidden_gem_score)
          /\ Cardinality({locations[i].user_ratings_total : i \in 1..Len(locations)}) <= 1 =>
                \A i \in 1..Len(locations) : locations[i].popularity_score = <<0>>
    /\ pc = "done" =>
          \A i \in 1..Len(output) :
              /\ InUnitInterval(output[i].popularity_score)
              /\ InUnitInterval(<<output[i].hidden_gem_score>>)


-----------------------------------------------------------------------------
(* Venue table with a base file: src/pinit/tagging.py load_locations       *)

\* the base files: absent (or without a grid_id column), one row for each of the
\* first two places, the first place listed twice, and the first place listed
\* twice next to a place the details file may not have
BaseFileOptions ==
    {NaN,
     <<<<[place_id |-> 1, grid_id |-> <<"g1">>], [place_id |-> 2, grid_id |-> <<"g2">>]>>>>,
     <<<<[place_id |-> 1, grid_id |-> <<"g1">>], [place_id |-> 1, grid_id |-> <<"g2">>]>>>>,
     <<<<[place_id |-> 1, grid_id |-> <<"g1">>], [place_id |-> 1, grid_id |-> <<"g1">>],
         [place_id |-> 3, grid_id |-> <<"g3">>]>>>>}

InitVenueTable ==
    /\ ApiIdle
    /\ pc = "load"
    /\ \E n \in 0..MaxGemVenues : \E f \in GemVenueChoices(n) :
          locations = DetailsFile([i \in 1..n |-> GemVenueOptions[f[i]]])
    /\ base_df \in BaseFileOptions
    /\ reviews = <<>>
    /\ review_config = <<>>
    /\ records = <<>>
    /\ tags_df = <<>>
    /\ min_reviews = DEFAULT_MIN_REVIEWS
    /\ sklearn_available = FALSE
    /\ model_df = <<>>
    /\ fit_result = <<>>
    /\ now = 0
    /\ action_log = <<>>
    /\ rng_stream = <<>>
    /\ first_run = <<>>
    /\ output = <<>>
    /\ user_tags = <<>>
    /\ location_tags = <<>>
    /\ user_actions = <<>>
    /\ user_history = <<>>
    /\ pipeline_config = <<>>
    /\ set_order = <<>>
    /\ taste_scores = <<>>
    /\ candidate_map = <<>>
    /\ seen_locations = <<>>
    /\ pending = <<>>
    /\ user_id = 0
    /\ center = <<>>
    /\ config = <<>>
    /\ nearby = <<>>
    /\ filter_radius = 0
    /\ nearby_copy = <<>>
    /\ result = <<>>
    /\ depth = 0
    /\ call_radii = <<>>
    /\ caller_counts = <<>>

NextVenueTable ==
    \/ GemLoad

SpecVenueTable == InitVenueTable /\ [][NextVenueTable]_vars

\* C14: location_id is unique in the table load_locations returns, whatever the
\* details file and the optional base file hold, a base file that lists one
\* place_id more than once included
C14_LocationIdUnique ==
    VenueTableLoaded =>
        \A i, j \in 1..Len(locations) :
            i # j => locations[i].location_id # locations[j].location_id

\* C14 holds while the base file lists no place_id twice
C14_UniqueWithoutRepeatedBaseRows ==
    (/\ VenueTableLoaded
     /\ IsNa(base_df) \/ \A a, b \in 1..Len(Val(base_df)) :
                             a # b => Val(base_df)[a].place_id # Val(base_df)[b].place_id)
        => \A i, j \in 1..Len(locations) :
               i # j => locations[i].location_id # locations[j].location_id


-----------------------------------------------------------------------------
(* Tag catalog: src/pinit/tag_taxonomy.py                                  *)

_make_def(text, tag_type) == [text |-> text, tag_type |-> tag_type]

DefsOf(texts, tag_type) == [i \in 1..Len(texts) |-> _make_def(texts[i], tag_type)]

\* lines 38-58: the keys of cuisine_prompts in the order they are written
_cuisine_tags ==
    DefsOf(<<"italian", "indian", "japanese", "korean", "thai", "chinese", "vietnamese",
             "mexican", "mediterranean", "british", "pub", "bakery", "cafe", "seafood",
             "steakhouse", "vegan_vegetarian">>, "CUISINE")

_dietary_tags ==
    DefsOf(<<"vegetarian_friendly", "vegan_friendly", "halal_friendly",
             "gluten_free_options">>, "DIETARY")

_vibe_tags ==
    DefsOf(<<"cozy", "romantic", "lively", "quiet", "trendy", "casual", "formal",
             "family_friendly">>, "VIBE")

_occasion_tags ==
    DefsOf(<<"date_night", "brunch", "quick_bite", "group_hang", "business_meeting",
             "solo_friendly">>, "OCCASION")

_drinks_tags == DefsOf(<<"cocktails", "wine_bar", "craft_beer">>, "DRINKS")

_schedule_tags == DefsOf(<<"open_late", "open_early", "sunday_open">>, "SCHEDULE")

_value_tags == DefsOf(<<"great_value", "pricey", "hidden_gem">>, "VALUE")

\* lines 128-136
_category_tags == DefsOf(<<"restaurant", "cafe", "bar", "takeaway">>, "CATEGORY")

\* lines 139-152: the builders in turn, each extending the list
iter_tag_definitions ==
    _cuisine_tags \o _dietary_tags \o _vibe_tags \o _occasion_tags \o _drinks_tags
        \o _schedule_tags \o _value_tags \o _category_tags

\* lines 155-168: enumerate(defs, start=1)
tag_dataframe ==
    [i \in 1..Len(iter_tag_definitions) |->
        [tag_id |-> i,
         text |-> iter_tag_definitions[i].text,
         tag_type |-> iter_tag_definitions[i].tag_type]]

-----------------------------------------------------------------------------
(* Opening hours: src/pinit/tagging.py _schedule_flags                     *)
(* A JSON value is a record tagged with its type.                          *)

JNull == [t |-> "null"]
JNum(n) == [t |-> "num", n |-> n]
JStr(text) == [t |-> "str", s |-> text]
JList(items) == [t |-> "list", items |-> items]
JObj(keys, fields) == [t |-> "obj", keys |-> keys, fields |-> fields]
EmptyObj == JObj({}, <<>>)

JPeriodInfo(day, time) == JObj({"day", "time"}, [day |-> JNum(day), time |-> JStr(time)])

\* json.loads on the payloads of the modelled details files; <<>> when it raises
json_loads(raw) ==
    CASE raw = "5" -> <<JNum(5)>>
      [] raw = "0" -> <<JNum(0)>>
      [] raw = "null" -> <<JNull>>
      [] raw = "\"closed\"" -> <<JStr("closed")>>
      [] raw = "{}" -> <<EmptyObj>>
      [] raw = "{\"open\": 1}" -> <<JObj({"open"}, [open |-> JNum(1)])>>
      [] raw = "[]" -> <<JList(<<>>)>>
      [] raw = "[1]" -> <<JList(<<JNum(1)>>)>>
      [] raw = "[{\"open\": null}]" -> <<JList(<<JObj({"open"}, [open |-> JNull])>>)>>
      [] raw = "[{\"open\": {\"day\": 1, \"time\": \"0900\"}, \"close\": null}]" ->
            <<JList(<<JObj({"open", "close"},
                           [open |-> JPeriodInfo(1, "0900"), close |-> JNull])>>)>>
      [] raw = "[{\"open\": {\"day\": 0, \"time\": \"0000\"}}]" ->
            <<JList(<<JObj({"open"}, [open |-> JPeriodInfo(0, "0000")])>>)>>
      [] raw = "[{\"open\": {\"day\": 1, \"time\": \"0900\"}, \"close\": {\"day\": 1, \"time\": \"1700\"}}]" ->
            <<JList(<<JObj({"open", "close"},
                           [open |-> JPeriodInfo(1, "0900"), close |-> JPeriodInfo(1, "1700")])>>)>>
      [] raw = "[{\"open\": {\"day\": 5, \"time\": \"1800\"}, \"close\": {\"day\": 6, \"time\": \"0200\"}}]" ->
            <<JList(<<JObj({"open", "close"},
                           [open |-> JPeriodInfo(5, "1800"), close |-> JPeriodInfo(6, "0200")])>>)>>
      [] raw = "[{\"open\": {\"day\": 2, \"time\": \"0700\"}, \"close\": {\"day\": 2, \"time\": \"2330\"}}]" ->
            <<JList(<<JObj({"open", "close"},
                           [open |-> JPeriodInfo(2, "0700"), close |-> JPeriodInfo(2, "2330")])>>)>>
      [] raw = "[{\"open\": {\"day\": 1, \"time\": \"9am\"}, \"close\": {\"day\": 1, \"time\": \"5pm\"}}]" ->
            <<JList(<<JObj({"open", "close"},
                           [open |-> JPeriodInfo(1, "9am"), close |-> JPeriodInfo(1, "5pm")])>>)>>
      [] OTHER -> NaN

\* raw.strip() == ""
IsBlank(raw) == raw \in {"", " "}

\* bool(value) of a JSON value
Truthy(j) ==
    CASE j.t = "null" -> FALSE
      [] j.t = "num" -> j.n # 0
      [] j.t = "str" -> j.s # ""
      [] j.t = "list" -> j.items # <<>>
      [] j.t = "obj" -> j.keys # {}

\* lines 55-67; raw is <<>> for None or NaN, otherwise <<text>>.  The parsed value
\* is returned whatever its type
_safe_json_loads(raw) ==
    IF IsNa(raw) THEN JList(<<>>)
    ELSE IF IsBlank(Val(raw)) THEN JList(<<>>)
    ELSE IF IsNa(json_loads(Val(raw))) THEN JList(<<>>)
    ELSE Val(json_loads(Val(raw)))

\* int(value[:2]) * 60 + int(value[2:]); <<>> when int() raises ValueError
HhmmMinutes(text) ==
    CASE text = "0000" -> <<0>>
      [] text = "0200" -> <<2 * 60>>
      [] text = "0700" -> <<7 * 60>>
      [] text = "0900" -> <<9 * 60>>
      [] text = "1700" -> <<17 * 60>>
      [] text = "1800" -> <<18 * 60>>
      [] text = "2330" -> <<23 * 60 + 30>>
      [] OTHER -> NaN

\* lines 70-78
_hhmm_to_minutes(value) ==
    IF ~Truthy(value) \/ value.t # "str" THEN NaN ELSE HhmmMinutes(value.s)

\* dict.get(key, default)
Get(obj, key, default) == IF key \in obj.keys THEN obj.fields[key] ELSE default

\* == on the day values
JEq(a, b) ==
    /\ a.t = b.t
    /\ a.t = "num" => a.n = b.n
    /\ a.t = "str" => a.s = b.s

Raised == [raised |-> TRUE]

FlagsOf(open_late, open_early, sunday_open) ==
    [raised |-> FALSE, open_late |-> open_late, open_early |-> open_early,
     sunday_open |-> sunday_open]

\* lines 88-103, one period: .get on a value that is not a dict raises
\* AttributeError
PeriodFlags(p, flags) ==
    IF p.t # "obj" THEN Raised
    ELSE LET open_info == Get(p, "open", EmptyObj)
             close_info == Get(p, "close", EmptyObj)
         IN  IF open_info.t # "obj" \/ close_info.t # "obj" THEN Raised
             ELSE LET open_time == _hhmm_to_minutes(Get(open_info, "time", JNull))
                      close_time == _hhmm_to_minutes(Get(close_info, "time", JNull))
                      open_day == Get(open_info, "day", JNull)
                      close_day == Get(close_info, "day", JNull)
                  IN  FlagsOf(
                          \/ flags.open_late
                          \/ /\ ~IsNa(close_time)
                             /\ \/ /\ close_day.t # "null"
                                   /\ open_day.t # "null"
                                   /\ ~JEq(close_day, open_day)
                                \/ Val(close_time) >= 23 * 60,
                          \/ flags.open_early
                          \/ ~IsNa(open_time) /\ Val(open_time) <= 8 * 60,
                          \/ flags.sunday_open
                          \/ JEq(open_day, JNum(0))
                          \/ JEq(close_day, JNum(0)))

RECURSIVE PeriodsLoop(_, _)
PeriodsLoop(periods, flags) ==
    IF periods = <<>> THEN flags
    ELSE LET next == PeriodFlags(Head(periods), flags)
         IN  IF next.raised THEN Raised ELSE PeriodsLoop(Tail(periods), next)

\* lines 81-104.  A truthy value that is not a list: a number cannot be iterated
\* (TypeError), a string yields its characters and an object its keys, which
\* have no .get (AttributeError)
_schedule_flags(periods_raw) ==
    LET periods == _safe_json_loads(periods_raw)
    IN  IF ~Truthy(periods) THEN FlagsOf(FALSE, FALSE, FALSE)
        ELSE IF periods.t # "list" THEN Raised
        ELSE PeriodsLoop(periods.items, FlagsOf(FALSE, FALSE, FALSE))


-----------------------------------------------------------------------------
(* Tag evidence: src/pinit/tagging.py build_location_tags                  *)
(* The scores of tag records are held in thousandths.  A review text is    *)
(* held as the sequence of its phrases, and a keyword is in the text when  *)
(* it is one of them.                                                      *)

CATEGORY_TYPES(type) ==
    CASE type = "restaurant" -> <<"restaurant">>
      [] type = "meal_delivery" -> <<"takeaway">>
      [] type = "meal_takeaway" -> <<"takeaway">>
      [] type = "cafe" -> <<"cafe">>
      [] type = "bar" -> <<"bar">>
      [] OTHER -> NaN

\* lines 22-44, in the order of the dictionary
REVIEW_TAG_KEYWORDS ==
    <<[tag_text |-> "cozy", keywords |-> {"cozy", "cosy", "snug", "warm lighting"}],
      [tag_text |-> "romantic", keywords |-> {"romantic", "date night", "special date"}],
      [tag_text |-> "lively", keywords |-> {"lively", "buzzy", "energetic", "party"}],
      [tag_text |-> "quiet", keywords |-> {"quiet", "peaceful", "calm", "relaxed"}],
      [tag_text |-> "trendy", keywords |-> {"trendy", "instagrammable", "aesthetic"}],
      [tag_text |-> "casual", keywords |-> {"casual", "laid back", "chill vibes"}],
      [tag_text |-> "formal", keywords |-> {"formal", "fine dining", "tasting menu"}],
      [tag_text |-> "family_friendly", keywords |-> {"family", "kids", "child friendly", "pram"}],
      [tag_text |-> "date_night", keywords |-> {"date night", "romantic", "anniversary"}],
      [tag_text |-> "brunch", keywords |-> {"brunch", "poached eggs", "avocado toast"}],
      [tag_text |-> "quick_bite", keywords |-> {"quick bite", "fast service", "grab and go"}],
      [tag_text |-> "group_hang", keywords |-> {"group of friends", "hen party", "stag do"}],
      [tag_text |-> "business_meeting", keywords |-> {"business meeting", "client lunch", "power lunch"}],
      [tag_text |-> "solo_friendly", keywords |-> {"solo", "ate alone", "counter seating"}],
      [tag_text |-> "cocktails", keywords |-> {"cocktails", "mixology", "negroni", "margarita"}],
      [tag_text |-> "wine_bar", keywords |-> {"wine list", "sommelier", "wine flight"}],
      [tag_text |-> "craft_beer", keywords |-> {"craft beer", "tap list", "ipa", "lager"}],
      [tag_text |-> "vegetarian_friendly", keywords |-> {"vegetarian options", "vegetarian friendly"}],
      [tag_text |-> "vegan_friendly", keywords |-> {"vegan options", "plant based", "plant-based"}],
      [tag_text |-> "halal_friendly", keywords |-> {"halal", "halal friendly"}],
      [tag_text |-> "gluten_free_options", keywords |-> {"gluten free", "gluten-free", "celiac"}]>>

\* tagging.py lines 151-156: the three flags of every row; an exception of
\* _schedule_flags leaves load_locations
WithScheduleFlags(df) ==
    [i \in 1..Len(df) |->
        [location_id |-> df[i].location_id,
         google_place_id |-> df[i].google_place_id,
         cuisine_primary |-> df[i].cuisine_primary,
         types_list |-> df[i].types_list,
         price_bucket |-> df[i].price_bucket,
         opening_hours_periods |-> df[i].opening_hours_periods,
         is_open_late |-> _schedule_flags(df[i].opening_hours_periods).open_late,
         is_open_early |-> _schedule_flags(df[i].opening_hours_periods).open_early,
         is_sunday_open |-> _schedule_flags(df[i].opening_hours_periods).sunday_open]]

\* lines 188-197; mentions and unique_authors are the metadata of a review record
_add_tag_record(location_id, tag_text, score, source, mentions, unique_authors) ==
    [location_id |-> location_id, tag_text |-> tag_text, score |-> score,
     source |-> source, mentions |-> mentions, unique_authors |-> unique_authors]

\* lines 213-223
TypeRecords(row) ==
    LET known == SelectSeq(row.types_list, LAMBDA type : ~IsNa(CATEGORY_TYPES(type)))
    IN  [k \in 1..Len(known) |->
            _add_tag_record(row.location_id, Val(CATEGORY_TYPES(known[k])), 75 * 1000,
                            "google_types", NaN, NaN)]

\* lines 200-268, the records of one row
RowRecords(row) ==
    (IF row.cuisine_primary # "" /\ row.cuisine_primary # "unknown"
     THEN <<_add_tag_record(row.location_id, row.cuisine_primary, 92 * 1000,
                            "cuisine_detected", NaN, NaN)>>
     ELSE <<>>)
    \o TypeRecords(row)
    \o (IF row.price_bucket = "value"
        THEN <<_add_tag_record(row.location_id, "great_value", 80 * 1000, "price_level", NaN, NaN)>>
        ELSE IF row.price_bucket = "premium"
        THEN <<_add_tag_record(row.location_id, "pricey", 80 * 1000, "price_level", NaN, NaN)>>
        ELSE <<>>)
    \o (IF row.is_open_late
        THEN <<_add_tag_record(row.location_id, "open_late", 70 * 1000, "opening_hours", NaN, NaN)>>
        ELSE <<>>)
    \o (IF row.is_open_early
        THEN <<_add_tag_record(row.location_id, "open_early", 70 * 1000, "opening_hours", NaN, NaN)>>
        ELSE <<>>)
    \o (IF row.is_sunday_open
        THEN <<_add_tag_record(row.location_id, "sunday_open", 65 * 1000, "opening_hours", NaN, NaN)>>
        ELSE <<>>)

\* lines 200-271
_deterministic_tags(df) == Flatten([i \in 1..Len(df) |-> RowRecords(df[i])])

\* str.startswith("en")
StartsWithEn(language) == language \in {"en", "en-GB", "en-US"}

\* str.lower() of a phrase
Lower(phrase) ==
    CASE phrase = "Cosy" -> "cosy"
      [] phrase = "ROMANTIC" -> "romantic"
      [] OTHER -> phrase

\* lines 286-291: the tags with a keyword in the text, each once, in the order of
\* REVIEW_TAG_KEYWORDS
FoundTags(text) ==
    LET text_norm == {Lower(text[k]) : k \in 1..Len(text)}
        found == SelectSeq(REVIEW_TAG_KEYWORDS, LAMBDA meta : meta.keywords \cap text_norm # {})
    IN  [k \in 1..Len(found) |-> found[k].tag_text]

\* lines 284-298: one hit for every found tag of every review, in row order
ReviewHits(df) ==
    Flatten([i \in 1..Len(df) |->
        [k \in 1..Len(FoundTags(df[i].text)) |->
            [location_id |-> df[i].location_id,
             tag_text |-> FoundTags(df[i].text)[k],
             author |-> IF df[i].author_name = "" THEN "anon" ELSE df[i].author_name]]])

\* the keys of grouped, in the order setdefault created them
RECURSIVE GroupKeys(_, _)
GroupKeys(hits, keys) ==
    IF hits = <<>> THEN keys
    ELSE LET key == <<Head(hits).location_id, Head(hits).tag_text>>
         IN  GroupKeys(Tail(hits),
                       IF \E k \in 1..Len(keys) : keys[k] = key THEN keys ELSE Append(keys, key))

MutKeepsGroupWhenBothMet(unique_authors, mentions, cfg) ==
    unique_authors >= cfg.min_unique_authors /\ mentions >= cfg.min_mentions
\* line 304: the group is skipped when both counts are under their thresholds
KeepsGroup(unique_authors, mentions, cfg) ==
    ~(unique_authors < cfg.min_unique_authors /\ mentions < cfg.min_mentions)

\* lines 306-307
ReviewScore(unique_authors, mentions, cfg) ==
    Min2(cfg.score_cap * 1000,
         cfg.score_floor * 1000 + 15 * Log1pMilli(unique_authors) + 10 * Log1pMilli(mentions))

\* lines 274-316
_review_tag_records(all_reviews, cfg) ==
    IF all_reviews = <<>> THEN <<>>
    ELSE LET df == IF cfg.english_only
                   THEN SelectSeq(all_reviews, LAMBDA row : StartsWithEn(row.language))
                   ELSE all_reviews
             hits == ReviewHits(df)
             keys == GroupKeys(hits, <<>>)
             InGroup(key) == {h \in 1..Len(hits) :
                                 <<hits[h].location_id, hits[h].tag_text>> = key}
             mentions(key) == Cardinality(InGroup(key))
             unique_authors(key) == Cardinality({hits[h].author : h \in InGroup(key)})
             kept == SelectSeq(keys, LAMBDA key :
                                  KeepsGroup(unique_authors(key), mentions(key), cfg))
         IN  [k \in 1..Len(kept) |->
                 _add_tag_record(kept[k][1], kept[k][2],
                                 ReviewScore(unique_authors(kept[k]), mentions(kept[k]), cfg),
                                 "reviews", <<mentions(kept[k])>>, <<unique_authors(kept[k])>>)]

\* line 331: merge(tags_df[["tag_id", "text"]], left_on="tag_text", right_on="text",
\* how="inner"): every record once for each catalog row with its text
JoinCatalog(recs, catalog) ==
    Flatten([i \in 1..Len(recs) |->
        LET matches == SelectSeq(catalog, LAMBDA tag : tag.text = recs[i].tag_text)
        IN  [k \in 1..Len(matches) |->
                [location_id |-> recs[i].location_id,
                 tag_id |-> matches[k].tag_id,
                 tag_text |-> recs[i].tag_text,
                 score |-> recs[i].score,
                 source |-> recs[i].source]]])

\* tagging.py lines 175-185: the rows of the reviews file with the location_id of
\* their place, without the rows of a place that is no venue
load_reviews(file_rows, locs) ==
    LET resolved == SelectSeq(file_rows,
                              LAMBDA row : ~IsNa(place_to_location(locs, row.place_id)))
    IN  [i \in 1..Len(resolved) |->
            [location_id |-> Val(place_to_location(locs, resolved[i].place_id)),
             language |-> resolved[i].language,
             author_name |-> resolved[i].author_name,
             text |-> resolved[i].text]]

\* load_locations lines 151-156
TagScheduleFlags ==
    /\ UNCHANGED apiVars
    /\ pc = "flags"
    /\ IF \E i \in 1..Len(locations) : _schedule_flags(locations[i].opening_hours_periods).raised
       THEN /\ pc' = "raised"
            /\ UNCHANGED locations
       ELSE /\ pc' = "records"
            /\ locations' = WithScheduleFlags(locations)
    /\ UNCHANGED <<user_tags, location_tags, proxVars, pipeVars, runVars, gemVars, tagVars, output>>

\* pipeline.py line 25 and build_location_tags lines 322-324: the reviews are
\* loaded, then records = deterministic + review_based
TagRecords ==
    /\ UNCHANGED apiVars
    /\ pc = "records"
    /\ records' = _deterministic_tags(locations)
                      \o _review_tag_records(load_reviews(reviews, locations), review_config)
    /\ pc' = "catalog"
    /\ UNCHANGED <<locations, user_tags, location_tags, proxVars, pipeVars, runVars, gemVars,
                   reviews, review_config, tags_df, output>>

\* build_location_tags lines 325-334
TagJoinCatalog ==
    /\ UNCHANGED apiVars
    /\ pc = "catalog"
    /\ tags_df' = tag_dataframe
    /\ location_tags' = JoinCatalog(records, tag_dataframe)
    /\ pc' = "done"
    /\ UNCHANGED <<locations, user_tags, proxVars, pipeVars, runVars, gemVars,
                   reviews, review_config, records, output>>

-----------------------------------------------------------------------------
(* Tag evidence: inputs                                                    *)

MaxReviews == 3

\* the opening_hours_periods column: missing, blank, not JSON, JSON that is no
\* list, lists of things that are no period records, and period lists
PeriodsOptions ==
    {NaN, <<"">>, <<" ">>, <<"Mon-Fri 9-5">>, <<"5">>, <<"0">>, <<"null">>,
     <<"\"closed\"">>, <<"{}">>, <<"{\"open\": 1}">>, <<"[]">>, <<"[1]">>,
     <<"[{\"open\": null}]">>,
     <<"[{\"open\": {\"day\": 1, \"time\": \"0900\"}, \"close\": null}]">>,
     <<"[{\"open\": {\"day\": 0, \"time\": \"0000\"}}]">>,
     <<"[{\"open\": {\"day\": 1, \"time\": \"0900\"}, \"close\": {\"day\": 1, \"time\": \"1700\"}}]">>,
     <<"[{\"open\": {\"day\": 5, \"time\": \"1800\"}, \"close\": {\"day\": 6, \"time\": \"0200\"}}]">>,
     <<"[{\"open\": {\"day\": 2, \"time\": \"0700\"}, \"close\": {\"day\": 2, \"time\": \"2330\"}}]">>,
     <<"[{\"open\": {\"day\": 1, \"time\": \"9am\"}, \"close\": {\"day\": 1, \"time\": \"5pm\"}}]">>}

TagVenueKinds ==
    {[cuisine_primary |-> "cafe", types_list |-> <<"cafe", "food">>, price_bucket |-> "value"],
     [cuisine_primary |-> "unknown", types_list |-> <<"meal_delivery", "meal_takeaway">>,
      price_bucket |-> "premium"],
     [cuisine_primary |-> "peruvian", types_list |-> <<"bar", "lodging">>,
      price_bucket |-> "mid"]}

\* the rows of the reviews file; "px" is the place_id of no venue
ReviewOptions ==
    <<[place_id |-> "p1", language |-> "en",    author_name |-> "ann", text |-> <<"Cosy", "place">>],
      [place_id |-> "p1", language |-> "en",    author_name |-> "bob", text |-> <<"snug", "cozy">>],
      [place_id |-> "p1", language |-> "en-GB", author_name |-> "ann", text |-> <<"ROMANTIC">>],
      [place_id |-> "p1", language |-> "fr",    author_name |-> "cat", text |-> <<"cozy">>],
      [place_id |-> "p1", language |-> "en",    author_name |-> "",    text |-> <<"cozy">>],
      [place_id |-> "p2", language |-> "en",    author_name |-> "ann", text |-> <<"cozy">>],
      [place_id |-> "p1", language |-> "en",    author_name |-> "ann", text |-> <<"nice">>],
      [place_id |-> "px", language |-> "en",    author_name |-> "dan", text |-> <<"cozy">>]>>

ReviewChoices(n) ==
    {f \in [1..n -> 1..Len(ReviewOptions)] : \A i \in 1..(n - 1) : f[i] <= f[i + 1]}

\* config.py lines 42-49, and two other settings
ReviewTagConfigs ==
    {[min_unique_authors |-> 2, min_mentions |-> 3, english_only |-> TRUE,
      score_floor |-> 20, score_cap |-> 100],
     [min_unique_authors |-> 2, min_mentions |-> 3, english_only |-> FALSE,
      score_floor |-> 20, score_cap |-> 100],
     [min_unique_authors |-> 3, min_mentions |-> 2, english_only |-> TRUE,
      score_floor |-> 20, score_cap |-> 100]}

InitTagging ==
    /\ ApiIdle
    /\ pc = "flags"
    /\ \E raw \in PeriodsOptions : \E kind \in TagVenueKinds :
          locations =
              <<[location_id |-> 1, google_place_id |-> "p1",
                 cuisine_primary |-> kind.cuisine_primary,
                 types_list |-> kind.types_list, price_bucket |-> kind.price_bucket,
                 opening_hours_periods |-> raw],
                [location_id |-> 2, google_place_id |-> "p2", cuisine_primary |-> "italian",
                 types_list |-> <<"restaurant">>, price_bucket |-> "mid",
                 opening_hours_periods |-> NaN]>>
    /\ \E n \in 0..MaxReviews : \E f \in ReviewChoices(n) :
          reviews = [i \in 1..n |-> ReviewOptions[f[i]]]
    /\ review_config \in ReviewTagConfigs
    /\ records = <<>>
    /\ tags_df = <<>>
    /\ location_tags = <<>>
    /\ base_df = <<>>
    /\ min_reviews = 0
    /\ sklearn_available = FALSE
    /\ model_df = <<>>
    /\ fit_result = <<>>
    /\ now = 0
    /\ action_log = <<>>
    /\ rng_stream = <<>>
    /\ first_run = <<>>
    /\ output = <<>>
    /\ user_tags = <<>>
    /\ user_actions = <<>>
    /\ user_history = <<>>
    /\ pipeline_config = <<>>
    /\ set_order = <<>>
    /\ taste_scores = <<>>
    /\ candidate_map = <<>>
    /\ seen_locations = <<>>
    /\ pending = <<>>
    /\ user_id = 0
    /\ center = <<>>
    /\ config = <<>>
    /\ nearby = <<>>
    /\ filter_radius = 0
    /\ nearby_copy = <<>>
    /\ result = <<>>
    /\ depth = 0
    /\ call_radii = <<>>
    /\ caller_counts = <<>>

NextTagging ==
    \/ TagScheduleFlags
    \/ TagRecords
    \/ TagJoinCatalog

SpecTagging == InitTagging /\ [][NextTagging]_vars

-----------------------------------------------------------------------------
(* Tag evidence: properties                                                *)

CatalogBuilt == pc = "done" /\ tags_df # <<>>

\* C15: in the catalog of tag_dataframe the tag_id values are exactly 1..N in
\* enumeration order, and text is a unique key: no two entries, of whatever
\* category, have the same text
C15_CatalogKeyedByIdAndText ==
    CatalogBuilt =>
        /\ \A i \in 1..Len(tags_df) : tags_df[i].tag_id = i
        /\ \A i, j \in 1..Len(tags_df) : i # j => tags_df[i].text # tags_df[j].text

\* C15, the part about tag_id alone
C15_TagIdsEnumerated ==
    CatalogBuilt => \A i \in 1..Len(tags_df) : tags_df[i].tag_id = i

\* C16: _schedule_flags never raises
C16_ScheduleFlagsNeverRaises == pc # "raised"

\* C16 for the payloads json.loads rejects, and the missing and blank ones: the
\* three flags are false
C16_UnparseableAllFalse ==
    pc \in {"records", "catalog", "done"} =>
        \A i \in 1..Len(locations) :
            LET raw == locations[i].opening_hours_periods
            IN  (IsNa(raw) \/ IsBlank(Val(raw)) \/ IsNa(json_loads(Val(raw)))) =>
                    /\ ~locations[i].is_open_late
                    /\ ~locations[i].is_open_early
                    /\ ~locations[i].is_sunday_open

RecordsBuilt == pc \in {"catalog", "done"}

\* the reviews that count for a venue and a tag
GroupReviews(location_id, meta) ==
    {k \in 1..Len(reviews) :
        /\ place_to_location(locations, reviews[k].place_id) = <<location_id>>
        /\ review_config.english_only => StartsWithEn(reviews[k].language)
        /\ \E p \in 1..Len(reviews[k].text) : Lower(reviews[k].text[p]) \in meta.keywords}

GroupAuthors(location_id, meta) ==
    {IF reviews[k].author_name = "" THEN "anon" ELSE reviews[k].author_name :
        k \in GroupReviews(location_id, meta)}

Emitted(location_id, meta) ==
    \E r \in 1..Len(records) :
        /\ records[r].source = "reviews"
        /\ records[r].location_id = location_id
        /\ records[r].tag_text = meta.tag_text

\* C17: a review-derived (venue, tag) group is emitted if and only if
\* unique_authors >= min_unique_authors or mentions >= min_mentions
C17_EmittedIffEitherThreshold ==
    RecordsBuilt =>
        \A location_id \in {1, 2} : \A t \in 1..Len(REVIEW_TAG_KEYWORDS) :
            LET meta == REVIEW_TAG_KEYWORDS[t]
            IN  Emitted(location_id, meta)
                    <=> /\ GroupReviews(location_id, meta) # {}
                        /\ \/ Cardinality(GroupAuthors(location_id, meta))
                                  >= review_config.min_unique_authors
                           \/ Cardinality(GroupReviews(location_id, meta))
                                  >= review_config.min_mentions

\* a group that meets the mentions threshold only is emitted next to a group
\* that meets neither and is dropped
C17_Witness ==
    /\ RecordsBuilt
    /\ \E t \in 1..Len(REVIEW_TAG_KEYWORDS) :
          /\ Emitted(1, REVIEW_TAG_KEYWORDS[t])
          /\ Cardinality(GroupAuthors(1, REVIEW_TAG_KEYWORDS[t])) < review_config.min_unique_authors
    /\ \E t \in 1..Len(REVIEW_TAG_KEYWORDS) :
          /\ GroupReviews(1, REVIEW_TAG_KEYWORDS[t]) # {}
          /\ ~Emitted(1, REVIEW_TAG_KEYWORDS[t])


-----------------------------------------------------------------------------
(* Adaptive weights: src/pinit/recommendation.py _adaptive_weights         *)

MaxHistory == 7

\* base weights, in thousandths: the defaults, the defaults doubled, friend and
\* bubble weights, no taste weight, a negative trend weight, taste alone, a total
\* below one, and all zero
BaseWeightOptions ==
    {DefaultRecommendationWeights,
     [taste |-> 1000, trend_app |-> 300, hidden_gems |-> 400, quality |-> 300,
      friend |-> 0, bubble |-> 0],
     [taste |-> 500, trend_app |-> 150, hidden_gems |-> 200, quality |-> 150,
      friend |-> 500, bubble |-> 500],
     [taste |-> 0, trend_app |-> 500, hidden_gems |-> 250, quality |-> 250,
      friend |-> 0, bubble |-> 0],
     [taste |-> 1000, trend_app |-> -500, hidden_gems |-> 250, quality |-> 250,
      friend |-> 0, bubble |-> 0],
     [taste |-> 1000, trend_app |-> 0, hidden_gems |-> 0, quality |-> 0,
      friend |-> 0, bubble |-> 0],
     [taste |-> 250, trend_app |-> 100, hidden_gems |-> 100, quality |-> 50,
      friend |-> 0, bubble |-> 0],
     [taste |-> 0, trend_app |-> 0, hidden_gems |-> 0, quality |-> 0,
      friend |-> 0, bubble |-> 0]}

\* lines 134-135 of recommend_for_users, for one user
AdaptiveWeights ==
    /\ UNCHANGED apiVars
    /\ pc = "weights"
    /\ output' = _adaptive_weights(pipeline_config.recommendation_weights,
                                   user_history[1].n_actions)
    /\ pc' = "done"
    /\ UNCHANGED <<locations, user_tags, location_tags, proxVars, pipeVars, runVars, gemVars,
                   tagVars>>

InitAdaptiveWeights ==
    /\ ApiIdle
    /\ pc = "weights"
    /\ \E base \in BaseWeightOptions :
          pipeline_config = [recommendation_weights |-> base, top_k_per_user |-> 30]
    /\ \E history_size \in 0..MaxHistory :
          user_history = <<[user_id |-> 1, n_actions |-> history_size]>>
    /\ output = <<>>
    /\ locations = <<>>
    /\ reviews = <<>>
    /\ review_config = <<>>
    /\ records = <<>>
    /\ tags_df = <<>>
    /\ location_tags = <<>>
    /\ base_df = <<>>
    /\ min_reviews = 0
    /\ sklearn_available = FALSE
    /\ model_df = <<>>
    /\ fit_result = <<>>
    /\ now = 0
    /\ action_log = <<>>
    /\ rng_stream = <<>>
    /\ first_run = <<>>
    /\ user_tags = <<>>
    /\ user_actions = <<>>
    /\ set_order = <<>>
    /\ taste_scores = <<>>
    /\ candidate_map = <<>>
    /\ seen_locations = <<>>
    /\ pending = <<>>
    /\ user_id = 0
    /\ center = <<>>
    /\ config = <<>>
    /\ nearby = <<>>
    /\ filter_radius = 0
    /\ nearby_copy = <<>>
    /\ result = <<>>
    /\ depth = 0
    /\ call_radii = <<>>
    /\ caller_counts = <<>>

NextAdaptiveWeights ==
    \/ AdaptiveWeights

SpecAdaptiveWeights == InitAdaptiveWeights /\ [][NextAdaptiveWeights]_vars

WeightsReturned == pc = "done" /\ output # <<>>

\* C18: for a base vector with a positive total, with h actions under 5 the
\* returned weights are those of taste = base.taste * h / 5, trend raised by 60%
\* and quality by 40% of the removed taste weight, hidden gems and the other
\* weights as in the base, each divided by the total; with 5 or more actions they
\* are the base weights divided by their total; either way they sum to 1
C18_AdaptiveWeights ==
    WeightsReturned =>
        LET base == pipeline_config.recommendation_weights
            h == user_history[1].n_actions
            total == WeightTotal(base)
            removed == base.taste * (5 - h)
        IN  total > 0 =>
                /\ WeightTotal(output) = WeightScale
                /\ h < 5 =>
                      /\ 5 * total * output.taste = base.taste * h * WeightScale
                      /\ 50 * total * output.trend_app
                             = (50 * base.trend_app + 6 * removed) * WeightScale
                      /\ 50 * total * output.quality
                             = (50 * base.quality + 4 * removed) * WeightScale
                      /\ total * output.hidden_gems = base.hidden_gems * WeightScale
                      /\ total * output.friend = base.friend * WeightScale
                      /\ total * output.bubble = base.bubble * WeightScale
                /\ h >= 5 =>
                      \A k \in DOMAIN base : total * output[k] = base[k] * WeightScale

\* a user with one to four actions and a base vector that normalisation changes
C18_Witness ==
    /\ WeightsReturned
    /\ user_history[1].n_actions \in 1..4
    /\ pipeline_config.recommendation_weights.taste > 0
    /\ WeightTotal(pipeline_config.recommendation_weights) > WeightScale
    /\ output.taste > 0


-----------------------------------------------------------------------------
(* User profile builder on venues with many tags                           *)

MaxAffinityTags == 27

MaxAffinityActions == 2

\* the evidence scores of the first venue's tags: all alike, rising and falling
\* with the tag id, and a few values that repeat
TagScorePatterns == {"flat", "rising", "falling", "mixed"}

PatternScore(pattern, tag_id) ==
    CASE pattern = "flat" -> 80
      [] pattern = "rising" -> 40 + 2 * tag_id
      [] pattern = "falling" -> 100 - 2 * tag_id
      [] pattern = "mixed" -> 50 + 7 * (tag_id % 5)

\* the first venue has the tags 1..n, the second the tags 1, 2 and 26
ManyLocationTags(n, pattern) ==
    [t \in 1..n |-> [location_id |-> 1, tag_id |-> t, score |-> PatternScore(pattern, t)]]
        \o <<[location_id |-> 2, tag_id |-> 1, score |-> 60],
             [location_id |-> 2, tag_id |-> 2, score |-> 60],
             [location_id |-> 2, tag_id |-> 26, score |-> 60]>>

\* one action of every type the log can hold on the first venue, a dismissal of
\* the second, an action on a place that is no venue, and a second user
AffinityActionOptions ==
    <<[user_id |-> 1, place_id |-> "p1", action |-> "save", created_at |-> 30],
      [user_id |-> 1, place_id |-> "p1", action |-> "like", created_at |-> 30],
      [user_id |-> 1, place_id |-> "p1", action |-> "share", created_at |-> 30],
      [user_id |-> 1, place_id |-> "p1", action |-> "share_to_bubble", created_at |-> 30],
      [user_id |-> 1, place_id |-> "p1", action |-> "detail_view", created_at |-> 0],
      [user_id |-> 1, place_id |-> "p1", action |-> "impression", created_at |-> 30],
      [user_id |-> 1, place_id |-> "p1", action |-> "dismiss", created_at |-> 30],
      [user_id |-> 1, place_id |-> "p2", action |-> "dismiss", created_at |-> 30],
      [user_id |-> 1, place_id |-> "px", action |-> "save", created_at |-> 30],
      [user_id |-> 2, place_id |-> "p1", action |-> "like", created_at |-> 30]>>

AffinityActionChoices(n) ==
    {f \in [1..n -> 1..Len(AffinityActionOptions)] : \A i \in 1..(n - 1) : f[i] <= f[i + 1]}

InitAffinities ==
    /\ ApiIdle
    /\ pc = "affinities"
    /\ locations = PipeLocations(<<1, 2>>)
    /\ \E n \in {0, 1} \cup (TOP_TAGS - 1)..MaxAffinityTags : \E pattern \in TagScorePatterns :
          location_tags = ManyLocationTags(n, pattern)
    /\ \E n \in 0..MaxAffinityActions : \E f \in AffinityActionChoices(n) :
          user_actions = [i \in 1..n |-> AffinityActionOptions[f[i]]]
    /\ action_log = user_actions
    /\ now = 30
    /\ rng_stream = <<>>
    /\ first_run = <<>>
    /\ pipeline_config = [recommendation_weights |-> DefaultRecommendationWeights,
                          top_k_per_user |-> 30, synthetic_users |-> FALSE]
    /\ set_order = <<1, 2>>
    /\ user_tags = <<>>
    /\ user_history = <<>>
    /\ taste_scores = <<>>
    /\ candidate_map = <<>>
    /\ seen_locations = <<>>
    /\ pending = <<>>
    /\ output = <<>>
    /\ user_id = 0
    /\ center = <<>>
    /\ config = <<>>
    /\ nearby = <<>>
    /\ filter_radius = 0
    /\ nearby_copy = <<>>
    /\ result = <<>>
    /\ depth = 0
    /\ call_radii = <<>>
    /\ caller_counts = <<>>
    /\ min_reviews = 0
    /\ sklearn_available = FALSE
    /\ model_df = <<>>
    /\ fit_result = <<>>
    /\ base_df = <<>>
    /\ reviews = <<>>
    /\ review_config = <<>>
    /\ records = <<>>
    /\ tags_df = <<>>

NextAffinities ==
    \/ PipeAffinities

SpecAffinities == InitAffinities /\ [][NextAffinities]_vars

\* the affinity rows of a user, in table order
AffinityRowsOf(u) == SelectSeq(user_tags, LAMBDA row : row.user_id = u)

\* every (tag, score) the user has before the cut: the sums of weight x evidence
\* over the user's kept actions, each scaled by the user's largest sum
ScoredTagsOf(u) ==
    LET group == AggOfUser(u, _apply_action_weights(ResolvedActions(user_actions, locations)),
                           location_tags)
    IN  IF group = <<>> THEN <<>> ELSE _normalize(group)

\* C19: at most 25 affinity rows per user, each user's rows in non-increasing
\* order of score, and every tag dropped for a user scores no higher than every
\* tag kept for that user
C19_TopTagsKept ==
    AffinitiesBuilt =>
        \A u \in LogUsers :
            LET rows == AffinityRowsOf(u)
                kept == {rows[k].tag_id : k \in 1..Len(rows)}
                all == ScoredTagsOf(u)
            IN  /\ Len(rows) <= 25
                /\ \A k \in 1..(Len(rows) - 1) : rows[k].score >= rows[k + 1].score
                /\ \A d \in 1..Len(all) : all[d].tag_id \notin kept =>
                       \A k \in 1..Len(rows) : all[d].score <= rows[k].score

\* a user with more than 25 scored tags of different scores, of which 25 are kept
C19_Witness ==
    /\ AffinitiesBuilt
    /\ \E u \in LogUsers :
          /\ Len(ScoredTagsOf(u)) > 25
          /\ Len(AffinityRowsOf(u)) = 25
          /\ AffinityRowsOf(u)[1].score > AffinityRowsOf(u)[25].score
          /\ \E d \in 1..Len(ScoredTagsOf(u)) :
                /\ ScoredTagsOf(u)[d].tag_id
                       \notin {AffinityRowsOf(u)[k].tag_id : k \in 1..25}
                /\ ScoredTagsOf(u)[d].score < AffinityRowsOf(u)[25].score

\* the action rows of a user, of the given types, on a place that is a venue
ResolvableActionsOf(u, types) ==
    {i \in 1..Len(user_actions) :
        /\ user_actions[i].user_id = u
        /\ user_actions[i].action \in types
        /\ ~IsNa(place_to_location(locations, user_actions[i].place_id))}

CountedActionsOf(u) ==
    LET rows == {k \in 1..Len(user_history) : user_history[k].user_id = u}
    IN  IF rows = {} THEN 0 ELSE user_history[CHOOSE k \in rows : TRUE].n_actions

\* the profile builder returned a history table (it returns empty tables when no
\* kept action is on a venue with tag evidence)
HistoryBuilt == AffinitiesBuilt /\ user_history # <<>>

\* C20: an action of type save, like, share, detail_view, impression or dismiss on
\* a resolvable venue has a non-zero weight: it is kept and counted in the
\* user's action count
C20_SixTypesCounted ==
    HistoryBuilt =>
        \A u \in LogUsers :
            CountedActionsOf(u)
                >= Cardinality(ResolvableActionsOf(u,
                       {"save", "like", "share", "detail_view", "impression", "dismiss"}))

\* C20 for the types that are keys of DEFAULT_ACTION_WEIGHTS: share_to_bubble in
\* the place of share
C20_KeyedTypesCounted ==
    HistoryBuilt =>
        \A u \in LogUsers :
            CountedActionsOf(u)
                = Cardinality(ResolvableActionsOf(u,
                      {"save", "like", "share_to_bubble", "detail_view", "impression", "dismiss"}))


-----------------------------------------------------------------------------
(* The pipeline: action rows on a place that is no venue                   *)

PipelineDone == pc = "done" /\ first_run = <<>>

\* the action log without the rows whose place_id is the key of no venue
ResolvableLog ==
    SelectSeq(user_actions,
              LAMBDA a : ~IsNa(place_to_location(locations, a.place_id)))

\* the recommendation rows of one user, in table order
OutputRowsOf(u) == SelectSeq(output, LAMBDA row : row.user_id = u)

\* the rows the blender gives a user on the action log `actions`
BlendRowsOn(u, actions) ==
    LET built == build_user_tag_affinities(actions, location_tags, locations)
        tastes == _taste_contributions(built.user_tags, location_tags)
    IN  IF u \notin AllUserIds(built.user_tags, built.user_history, actions) THEN <<>>
        ELSE RowsOfUser(u,
                        CandidatesOf(u, tastes, TopIds(PopularityBefore, locations),
                                     TopIds(HiddenGemBefore, locations)),
                        SeenOf(u, actions, locations), locations, tastes,
                        built.user_history, pipeline_config, set_order)

\* C21 (action rows): an action row on a place that is no venue changes no output:
\* the affinities, the action counts, the seen venues and the recommendations are
\* those of the log without the row
C21_UnresolvableRowsNoEffect ==
    PipelineDone =>
        /\ user_tags = build_user_tag_affinities(ResolvableLog, location_tags, locations).user_tags
        /\ user_history
               = build_user_tag_affinities(ResolvableLog, location_tags, locations).user_history
        /\ \A u \in LogUsers :
              /\ (IF u \in DOMAIN seen_locations THEN seen_locations[u] ELSE {})
                     = SeenOf(u, ResolvableLog, locations)
              /\ OutputRowsOf(u) = BlendRowsOn(u, ResolvableLog)

\* C21 without the recommendations: the affinities, the action counts and the seen
\* venues are those of the log without the unresolvable rows
C21_ProfilesAndSeenUnaffected ==
    PipelineDone =>
        /\ user_tags = build_user_tag_affinities(ResolvableLog, location_tags, locations).user_tags
        /\ user_history
               = build_user_tag_affinities(ResolvableLog, location_tags, locations).user_history
        /\ \A u \in LogUsers :
              (IF u \in DOMAIN seen_locations THEN seen_locations[u] ELSE {})
                  = SeenOf(u, ResolvableLog, locations)

\* C21 for the users with a resolvable row: their recommendations are those of
\* the log without the unresolvable rows
C21_RowsOfResolvedUsersUnaffected ==
    PipelineDone =>
        \A u \in {ResolvableLog[i].user_id : i \in 1..Len(ResolvableLog)} :
            OutputRowsOf(u) = BlendRowsOn(u, ResolvableLog)


\* the reviews file without the rows whose place_id is the key of no venue
ResolvableReviews ==
    SelectSeq(reviews, LAMBDA row : ~IsNa(place_to_location(locations, row.place_id)))

\* C21 (review rows): a review row on a place that is no venue adds no tag
\* evidence: the records and the evidence table are those of the reviews file
\* without the row
C21_UnresolvableReviewsNoEffect ==
    /\ RecordsBuilt =>
          records = _deterministic_tags(locations)
                        \o _review_tag_records(load_reviews(ResolvableReviews, locations),
                                               review_config)
    /\ pc = "done" =>
          /\ location_tags
                 = JoinCatalog(_deterministic_tags(locations)
                                   \o _review_tag_records(
                                          load_reviews(ResolvableReviews, locations),
                                          review_config),
                               tag_dataframe)
          /\ \A r \in 1..Len(location_tags) : location_tags[r].location_id \in {1, 2}


-----------------------------------------------------------------------------
(* Proximal recommender: the range of the taste score                      *)

ProximalReturned == pc = "done" /\ call_radii # <<>>

\* C22: every taste_score of a build_proximal_recommendations result is in
\* [0, 1], whatever affinity rows the profile builder produced, rows of negative
\* score included
C22_ProximalTasteInUnitInterval ==
    ProximalReturned =>
        \A i \in 1..Len(output) :
            output[i].taste_score >= 0 /\ output[i].taste_score <= Scale

\* C22, the cap alone: no taste_score of a result is above 1
C22_ProximalTasteAtMostOne ==
    ProximalReturned => \A i \in 1..Len(output) : output[i].taste_score <= Scale

\* C22 for the users none of whose affinity rows has a negative score
C22_InUnitIntervalWithoutNegativeAffinity ==
    (/\ ProximalReturned
     /\ \A k \in 1..Len(user_tags) : user_tags[k].user_id = user_id => user_tags[k].score >= 0)
        => \A i \in 1..Len(output) :
               output[i].taste_score >= 0 /\ output[i].taste_score <= Scale


-----------------------------------------------------------------------------
(* Hidden gems: the source of the score                                    *)

GemsReturned == pc = "done" /\ model_df = _prepare_model_frame(locations)

RatedCount == Cardinality({i \in 1..Len(output) : ~IsNa(output[i].rating)})

NoPositiveSignal ==
    \/ IsNa(fit_result)
    \/ \A k \in 1..Len(Val(fit_result).signal) : Val(fit_result).signal[k] <= 0

\* the least and the greatest log1p review count of the rated venues
RatedLogReviewRange ==
    LET rated == {Log1pMilli(output[j].user_ratings_total) :
                     j \in {k \in 1..Len(output) : ~IsNa(output[k].rating)}}
    IN  IF rated = {} THEN <<0, 0>>
        ELSE <<CHOOSE x \in rated : \A y \in rated : x <= y,
               CHOOSE x \in rated : \A y \in rated : x >= y>>

\* the review weight of a rated venue: log1p of its review count, min-max scaled
\* over the rated venues
ReviewWeightOf(i, range) ==
    IF range[1] = range[2] THEN 0
    ELSE ((Log1pMilli(output[i].user_ratings_total) - range[1]) * Scale)
             \div (range[2] - range[1])

\* the positive part of the venue's residual, weighted by its review weight, and
\* 0 for a venue without a residual or with fewer than min_reviews reviews
GatedPositiveResidual(i, range) ==
    IF IsNa(output[i].hype_residual) \/ output[i].user_ratings_total < min_reviews THEN 0
    ELSE (Max2(Val(output[i].hype_residual), 0) * (35 * Scale + 65 * ReviewWeightOf(i, range)))
             \div 100

\* the scores the rating model gives: the gated positive residuals, min-max scaled
RatingModelScores ==
    CHOOSE scaled \in {_min_max_scale(signal) :
                          signal \in {[j \in 1..Len(output) |-> GatedPositiveResidual(j, range)] :
                                         range \in {RatedLogReviewRange}}} : TRUE

\* C23: add_hidden_gem_scores tags every venue with one source; the source is
\* popularity_residual exactly when the regression library is missing, fewer than
\* 50 venues have a rating, the fit fails or no venue has a positive signal, and
\* otherwise it is rating_model and the score is the min-max scaled gated
\* positive residual
C23_SourceOfHiddenGemScore ==
    GemsReturned =>
        /\ \A i \in 1..Len(output) :
              /\ output[i].hidden_gem_source \in {"rating_model", "popularity_residual"}
              /\ output[i].hidden_gem_source = "popularity_residual"
                    <=> \/ ~sklearn_available
                        \/ RatedCount < MIN_MODEL_ROWS
                        \/ NoPositiveSignal
        /\ (\E i \in 1..Len(output) : output[i].hidden_gem_source = "rating_model")
              => [i \in 1..Len(output) |-> output[i].hidden_gem_score] = RatingModelScores

\* a table of 50 rated venues and one without a rating, scored by the rating model
C23_Witness ==
    /\ GemsReturned
    /\ RatedCount = MIN_MODEL_ROWS
    /\ output[1].hidden_gem_source = "rating_model"
    /\ \E i \in 1..Len(output) : output[i].hidden_gem_score = Scale
    /\ \E j \in 1..Len(output) : IsNa(output[j].rating)
    /\ \E k \in 1..Len(output) :
          /\ output[k].user_ratings_total < min_reviews
          /\ Fill(output[k].hype_residual, 0) > 0

\* the fallback is taken on a fit that raised, with the library present and 50
\* rated venues
C23_FitFailureWitness ==
    /\ GemsReturned
    /\ sklearn_available
    /\ RatedCount >= MIN_MODEL_ROWS
    /\ IsNa(fit_result)
    /\ \E i \in 1..Len(output) : output[i].hidden_gem_source = "popularity_residual"


-----------------------------------------------------------------------------
(* Proximal recommender: a user without affinity rows                      *)

UnknownUser == \A k \in 1..Len(user_tags) : user_tags[k].user_id # user_id

\* C24: for a user id that no affinity row names, build_proximal_recommendations
\* returns no rows
C24_UnknownUserGetsNoRows ==
    (ProximalReturned /\ UnknownUser) => output = <<>>

\* C24, what the recommender does for such a user: the venues in radius are
\* returned, each with a taste score of 0
C24_UnknownUserTasteZero ==
    (ProximalReturned /\ UnknownUser) =>
        /\ \A i \in 1..Len(output) : output[i].taste_score = 0
        /\ output = <<>> <=> nearby = <<>>


-----------------------------------------------------------------------------
(* Tag evidence: the rows of the deterministic rules                       *)

EvidenceBuilt == pc = "done" /\ tags_df # <<>>

\* the records of the deterministic rules: one for every rule that fired
FiredRecords == {i \in 1..Len(records) : records[i].source # "reviews"}

SameFiring(a, b) ==
    /\ a.location_id = b.location_id
    /\ a.tag_text = b.tag_text
    /\ a.source = b.source

\* how many catalog rows carry the text
CatalogRowsOf(text) == Cardinality({k \in 1..Len(tags_df) : tags_df[k].text = text})

\* the confidence of a deterministic rule, in thousandths
FixedConfidence(rec) ==
    CASE rec.source = "cuisine_detected" -> 92 * 1000
      [] rec.source = "google_types" -> 75 * 1000
      [] rec.source = "price_level" -> 80 * 1000
      [] rec.source = "opening_hours" /\ rec.tag_text = "sunday_open" -> 65 * 1000
      [] OTHER -> 70 * 1000

\* C25: for every venue and every deterministic rule that fired, the evidence
\* table holds exactly one row for that firing, with the rule's fixed
\* confidence, when the tag text is in the catalog, and no row when it is not
C25_OneRowPerFiring ==
    EvidenceBuilt =>
        \A i \in FiredRecords :
            LET firings == {k \in FiredRecords : SameFiring(records[k], records[i])}
                rows == {j \in 1..Len(location_tags) : SameFiring(location_tags[j], records[i])}
            IN  /\ Cardinality(rows) =
                      IF CatalogRowsOf(records[i].tag_text) > 0 THEN Cardinality(firings) ELSE 0
                /\ \A j \in rows : location_tags[j].score = FixedConfidence(records[i])

\* C25 with the catalog as it is built: a firing has one row for every catalog
\* entry of its text, each with the fixed confidence
C25_OneRowPerFiringAndCatalogEntry ==
    EvidenceBuilt =>
        \A i \in FiredRecords :
            LET firings == {k \in FiredRecords : SameFiring(records[k], records[i])}
                rows == {j \in 1..Len(location_tags) : SameFiring(location_tags[j], records[i])}
            IN  /\ Cardinality(rows) = Cardinality(firings) * CatalogRowsOf(records[i].tag_text)
                /\ \A j \in rows : location_tags[j].score = FixedConfidence(records[i])
                /\ records[i].score = FixedConfidence(records[i])

\* a cuisine outside the catalog fired and left no row, beside a recognised type
C25_OutsideCatalogReached ==
    /\ EvidenceBuilt
    /\ \E i \in FiredRecords :
          /\ CatalogRowsOf(records[i].tag_text) = 0
          /\ \A j \in 1..Len(location_tags) : location_tags[j].tag_text # records[i].tag_text
    /\ \E i \in FiredRecords : records[i].source = "opening_hours"


-----------------------------------------------------------------------------
(* Proximal recommender: widening of the radius                            *)

\* the venues within rad of the centre
WithinOf(rad) == filter_by_radius(center.lat, center.lon, locations, rad)

\* C26 as stated: whenever the result is drawn from fewer than min_results
\* in-radius venues, three times the radius of the returning call holds no more
\* venues than the set the result was drawn from
C26_WideningWouldNotHelp ==
    (ProximalReturned /\ Len(nearby) < config.min_results)
        => Len(WithinOf(3 * config.radius_km)) <= Len(nearby)

\* C26 as amended: the same for every result that is not empty
C26_WideningWouldNotHelpUnlessEmpty ==
    (ProximalReturned /\ output # <<>> /\ Len(nearby) < config.min_results)
        => Len(WithinOf(3 * config.radius_km)) <= Len(nearby)

\* a call that returned fewer than min_results rows, drawn from the filter with
\* twice its radius, while a venue lies further out
C26_Witness ==
    /\ ProximalReturned
    /\ output # <<>>
    /\ depth = 0
    /\ filter_radius = 2 * config.radius_km
    /\ Len(nearby) < config.min_results
    /\ Len(nearby) < Cardinality(WithCoordinates)

\* C27: the result is empty exactly when no venue lies within twice the
\* requested radius_km of the centre (max_results is at least 1)
C27_EmptyIffNothingWithinTwiceRadius ==
    ProximalReturned =>
        (output = <<>> <=> WithinOf(2 * call_radii[1]) = <<>>)

\* an empty result although a venue lies within three times the requested radius
C27_Witness ==
    /\ ProximalReturned
    /\ output = <<>>
    /\ WithinOf(3 * call_radii[1]) # <<>>

\* C29: build_proximal_recommendations terminates
C29_Terminates == <>(pc = "done")

\* C29, the measure: every recursive call is made by a caller whose filtered set
\* is smaller than the set within three times its radius, the filtered sets grow
\* strictly along the recursion and hold at most the venues with coordinates
C29_InRadiusCountIncreases ==
    /\ \A k \in 1..(Len(caller_counts) - 1) : caller_counts[k] < caller_counts[k + 1]
    /\ \A k \in 1..Len(caller_counts) : caller_counts[k] < Cardinality(WithCoordinates)
    /\ (depth >= 1 /\ pc \in {"score", "ensure", "done"})
          => /\ Len(nearby) > caller_counts[depth]
             /\ Len(nearby) <= Cardinality(WithCoordinates)
             /\ filter_radius = call_radii[depth + 1]

\* the cap of the model on the recursion depth is never reached
C29_DepthBelowCap == depth < MaxDepth

\* a call that returned after two recursive calls
C29_Witness ==
    /\ pc = "done"
    /\ depth = 2
    /\ caller_counts = <<1, 2>>
    /\ Len(nearby) = 3


-----------------------------------------------------------------------------
(* The pipeline: the rows of a user and the data of other users            *)

\* the action rows of the user alone, in the order of the log
OwnLog(u) == SelectSeq(user_actions, LAMBDA a : a.user_id = u)

\* C28: a user's recommendation rows depend on that user's own actions and on
\* the shared venue and evidence tables only: they are the rows the pipeline
\* gives the user on the log without the rows of every other user, so two logs
\* that agree on the user's rows give the user the same venues, ranks and scores
C28_RowsDependOnOwnDataOnly ==
    PipelineDone =>
        \A u \in LogUsers :
            /\ OutputRowsOf(u) = BlendRowsOn(u, OwnLog(u))
            /\ SelectSeq(user_tags, LAMBDA row : row.user_id = u)
                   = build_user_tag_affinities(OwnLog(u), location_tags, locations).user_tags
            /\ SelectSeq(user_history, LAMBDA row : row.user_id = u)
                   = build_user_tag_affinities(OwnLog(u), location_tags, locations).user_history

\* the users with an affinity row of their own
ProfiledUsers == {user_tags[i].user_id : i \in 1..Len(user_tags)}

\* C28 for the users with an affinity row: their rows, affinities and action
\* count are those of their own actions alone
C28_ProfiledUsersDependOnOwnDataOnly ==
    PipelineDone =>
        \A u \in ProfiledUsers :
            /\ OutputRowsOf(u) = BlendRowsOn(u, OwnLog(u))
            /\ SelectSeq(user_tags, LAMBDA row : row.user_id = u)
                   = build_user_tag_affinities(OwnLog(u), location_tags, locations).user_tags
            /\ SelectSeq(user_history, LAMBDA row : row.user_id = u)
                   = build_user_tag_affinities(OwnLog(u), location_tags, locations).user_history

\* C28 for every user: the venues recommended, apart from their scores and
\* order, are those of the user's own actions alone
C28_VenuesDependOnOwnDataOnly ==
    PipelineDone =>
        \A u \in LogUsers :
            LET alone == BlendRowsOn(u, OwnLog(u))
            IN  pipeline_config.top_k_per_user >= Len(locations)
                    => {OutputRowsOf(u)[i].location_id : i \in 1..Len(OutputRowsOf(u))}
                           = {alone[i].location_id : i \in 1..Len(alone)}


-----------------------------------------------------------------------------
(* Serving layer: src/api/proximal_api.py                                  *)
(* The handlers are coroutines of one event loop and none of them awaits:  *)
(* a handler, and the load_data call of the startup event, runs to its end *)
(* before the next one starts.  pc is "idle" between them.  A response is  *)
(* held with the cache entries the handler read.                           *)

\* the startup events of one process
MaxStartups == 2

CacheKeys == <<"locations", "tags", "location_tags", "user_tags", "user_history">>

MutAlreadyLoadedNever == DATA_CACHE.loaded /\ FALSE
\* line 129: if DATA_CACHE["loaded"]: return
AlreadyLoaded == DATA_CACHE.loaded

\* lines 167-170: the startup event calls load_data
StartupEvent ==
    /\ pc = "idle"
    /\ n_startups < MaxStartups
    /\ n_startups' = n_startups + 1
    /\ pc' = "load_data"
    /\ UNCHANGED <<locations, user_tags, location_tags, proxVars, pipeVars, gemVars, tagVars,
                   runVars, DATA_CACHE, staged, n_builds, output>>

\* lines 129-130
LoadReturnEarly ==
    /\ pc = "load_data"
    /\ AlreadyLoaded
    /\ pc' = "idle"
    /\ UNCHANGED <<locations, user_tags, location_tags, proxVars, pipeVars, gemVars, tagVars,
                   runVars, apiVars, output>>

\* lines 132-151: the five tables are built into local variables; an exception
\* of a loader leaves load_data with the cache untouched
LoadBuild ==
    /\ pc = "load_data"
    /\ ~AlreadyLoaded
    /\ \E built \in BOOLEAN :
          IF built
          THEN /\ staged' = [tables |-> [locations |-> locations, tags |-> tags_df,
                                         location_tags |-> location_tags,
                                         user_tags |-> user_tags,
                                         user_history |-> user_history],
                             stored |-> 0]
               /\ n_builds' = n_builds + 1
               /\ pc' = "store"
          ELSE /\ pc' = "idle"
               /\ UNCHANGED <<staged, n_builds>>
    /\ UNCHANGED <<locations, user_tags, location_tags, proxVars, pipeVars, gemVars, tagVars,
                   runVars, DATA_CACHE, n_startups, output>>

\* lines 154-158: the tables are stored one after the other
LoadStore ==
    /\ pc = "store"
    /\ staged.stored < Len(CacheKeys)
    /\ LET key == CacheKeys[staged.stored + 1]
       IN  DATA_CACHE' = [DATA_CACHE EXCEPT ![key] = <<staged.tables[key]>>]
    /\ staged' = [staged EXCEPT !.stored = staged.stored + 1]
    /\ UNCHANGED <<pc, locations, user_tags, location_tags, proxVars, pipeVars, gemVars, tagVars,
                   runVars, n_startups, n_builds, output>>

\* line 159, and the return of load_data
LoadSetLoaded ==
    /\ pc = "store"
    /\ staged.stored = Len(CacheKeys)
    /\ DATA_CACHE' = [DATA_CACHE EXCEPT !.loaded = TRUE]
    /\ staged' = <<>>
    /\ pc' = "idle"
    /\ UNCHANGED <<locations, user_tags, location_tags, proxVars, pipeVars, gemVars, tagVars,
                   runVars, n_startups, n_builds, output>>

\* a response, with the cache entries the handler read on its way
Response(endpoint, status, reads) ==
    [endpoint |-> endpoint, status |-> status, reads |-> reads]

CachedUsers == {Val(DATA_CACHE.user_tags)[i].user_id : i \in 1..Len(Val(DATA_CACHE.user_tags))}

\* get_location_coordinates: both coordinates of the venue's row, if it has one
\* and both are known
HasCoordinates(location_id, locs) ==
    \E i \in 1..Len(locs) :
        /\ locs[i].location_id = location_id
        /\ \A k \in 1..Len(locs) : locs[k].location_id = location_id => i <= k
        /\ ~IsNa(locs[i].lat)
        /\ ~IsNa(locs[i].lon)

Respond(response) ==
    /\ pc = "idle"
    /\ output' = response
    /\ UNCHANGED <<pc, locations, user_tags, location_tags, proxVars, pipeVars, gemVars, tagVars,
                   runVars, apiVars>>

\* lines 196-274
GetProximalRecommendations ==
    \E uid \in 1..3 :
        Respond(IF ~DATA_CACHE.loaded
                THEN Response("proximal", 503, {})
                ELSE IF uid \notin CachedUsers
                THEN Response("proximal", 404, {"user_tags"})
                ELSE Response("proximal", 200, {"user_tags", "locations", "location_tags"}))

\* lines 277-353
GetBatchProximalRecommendations ==
    \E uids \in (SUBSET (1..3)) \ {{}} :
        Respond(IF ~DATA_CACHE.loaded
                THEN Response("batch", 503, {})
                ELSE IF \E uid \in uids : uid \notin CachedUsers
                THEN Response("batch", 404, {"user_tags"})
                ELSE Response("batch", 200, {"user_tags", "locations", "location_tags"}))

\* lines 356-380: an unknown venue is answered with found=False
GetCoordinates ==
    \E location_id \in 1..3 :
        Respond(IF ~DATA_CACHE.loaded
                THEN Response("coordinates", 503, {})
                ELSE [endpoint |-> "coordinates", status |-> 200, reads |-> {"locations"},
                      found |-> HasCoordinates(location_id, Val(DATA_CACHE.locations))])

\* lines 383-397
ListUsers ==
    Respond(IF ~DATA_CACHE.loaded
            THEN Response("users", 503, {})
            ELSE [endpoint |-> "users", status |-> 200, reads |-> {"user_tags"},
                  total_users |-> Cardinality(CachedUsers)])

\* lines 400-430
GetUserProfile ==
    \E uid \in 1..3 :
        Respond(IF ~DATA_CACHE.loaded
                THEN Response("profile", 503, {})
                ELSE IF uid \notin CachedUsers
                THEN Response("profile", 404, {"user_tags"})
                ELSE Response("profile", 200, {"user_tags", "tags"}))

\* lines 183-193: the health check reads the cache only when the flag is set
HealthCheck ==
    Respond(IF ~DATA_CACHE.loaded
            THEN [endpoint |-> "health", status |-> 200, reads |-> {}, data_loaded |-> FALSE]
            ELSE [endpoint |-> "health", status |-> 200,
                  reads |-> {"locations", "user_tags", "tags"}, data_loaded |-> TRUE])

-----------------------------------------------------------------------------
(* Serving layer: inputs                                                   *)

\* the venue tables load_locations can return: no venue, one with coordinates,
\* or a second one without a latitude
ApiLocationTables ==
    {<<>>,
     <<[location_id |-> 1, lat |-> <<1>>, lon |-> <<0>>]>>,
     <<[location_id |-> 1, lat |-> <<1>>, lon |-> <<0>>],
       [location_id |-> 2, lat |-> NaN, lon |-> <<0>>]>>}

\* the affinity tables build_user_tag_affinities can return: of no user, of one
\* and of two
ApiUserTagTables ==
    {<<>>,
     <<[user_id |-> 1, tag_id |-> 1, score |-> 100]>>,
     <<[user_id |-> 1, tag_id |-> 1, score |-> 100],
       [user_id |-> 2, tag_id |-> 1, score |-> 100]>>}

\* the process has imported the module; the variables of the loaders hold what
\* they return on the data files
InitServing ==
    /\ ApiIdle
    /\ pc = "idle"
    /\ output = <<>>
    /\ locations \in ApiLocationTables
    /\ user_tags \in ApiUserTagTables
    /\ user_history = [i \in 1..Len(user_tags) |-> [user_id |-> user_tags[i].user_id, n_actions |-> 1]]
    /\ location_tags = [i \in 1..Len(locations) |->
                           [location_id |-> locations[i].location_id, tag_id |-> 1, score |-> 92]]
    /\ tags_df = tag_dataframe
    /\ reviews = <<>>
    /\ review_config = <<>>
    /\ records = <<>>
    /\ base_df = <<>>
    /\ min_reviews = 0
    /\ sklearn_available = FALSE
    /\ model_df = <<>>
    /\ fit_result = <<>>
    /\ now = 0
    /\ action_log = <<>>
    /\ rng_stream = <<>>
    /\ first_run = <<>>
    /\ user_actions = <<>>
    /\ pipeline_config = <<>>
    /\ set_order = <<>>
    /\ taste_scores = <<>>
    /\ candidate_map = <<>>
    /\ seen_locations = <<>>
    /\ pending = <<>>
    /\ user_id = 0
    /\ center = <<>>
    /\ config = <<>>
    /\ nearby = <<>>
    /\ filter_radius = 0
    /\ nearby_copy = <<>>
    /\ result = <<>>
    /\ depth = 0
    /\ call_radii = <<>>
    /\ caller_counts = <<>>

NextServing ==
    \/ StartupEvent
    \/ LoadReturnEarly
    \/ LoadBuild
    \/ LoadStore
    \/ LoadSetLoaded
    \/ GetProximalRecommendations
    \/ GetBatchProximalRecommendations
    \/ GetCoordinates
    \/ ListUsers
    \/ GetUserProfile
    \/ HealthCheck

SpecServing == InitServing /\ [][NextServing]_vars

-----------------------------------------------------------------------------
(* Serving layer: properties                                               *)

GuardedEndpoints == {"proximal", "batch", "coordinates", "users", "profile"}

\* the tables are built at most once, and a load_data that finds the flag set
\* builds nothing
BuiltAtMostOnce ==
    /\ n_builds <= 1
    /\ DATA_CACHE.loaded => n_builds = 1 /\ pc # "store" /\ staged = <<>>

\* the flag is set only when all five tables are stored, and they are the
\* tables that were built
LoadedOnlyWithAllTables ==
    DATA_CACHE.loaded =>
        /\ DATA_CACHE.locations = <<locations>>
        /\ DATA_CACHE.tags = <<tags_df>>
        /\ DATA_CACHE.location_tags = <<location_tags>>
        /\ DATA_CACHE.user_tags = <<user_tags>>
        /\ DATA_CACHE.user_history = <<user_history>>

\* while the flag is not set, every answer of a guarded endpoint so far is a 503
\* given without reading a cache entry
UnloadedAnswers503 ==
    (~DATA_CACHE.loaded /\ output # <<>> /\ output.endpoint \in GuardedEndpoints)
        => output.status = 503 /\ output.reads = {}

\* no handler reads a cache entry that is not stored
ReadsOnlyStoredTables ==
    output # <<>> => \A key \in output.reads : ~IsNa(DATA_CACHE[key])

\* once set, the flag stays set and the cache is not written again
LoadedNeverReverts ==
    [][DATA_CACHE.loaded => DATA_CACHE' = DATA_CACHE]_vars

\* C30: the cached tables are built at most once per process and no build runs
\* beside another; load_data called with the flag set returns without building;
\* the flag is set only after all five tables are stored and never reverts; until
\* it is set every recommendation, coordinates, users and profile request is
\* answered 503 without reading the cache
C30_CacheBuiltOnceAndGuarded ==
    /\ [](BuiltAtMostOnce /\ LoadedOnlyWithAllTables /\ UnloadedAnswers503
            /\ ReadsOnlyStoredTables)
    /\ LoadedNeverReverts

\* a second startup event found the flag set and returned, and a request was
\* then answered from the cache
C30_Witness ==
    /\ pc = "idle"
    /\ n_startups = 2
    /\ n_builds = 1
    /\ DATA_CACHE.loaded
    /\ output # <<>>
    /\ output.endpoint = "proximal"
    /\ output.status = 200

\* a request answered 503 while load_data had failed and the cache was empty
C30_UnloadedWitness ==
    /\ pc = "idle"
    /\ n_startups = 1
    /\ ~DATA_CACHE.loaded
    /\ output # <<>>
    /\ output.endpoint = "coordinates"
    /\ output.status = 503

====
